---- MODULE Spec2Model ----
(***************************************************************************)
(* Acquisition pipeline of the CT220S curve tracer front end:              *)
(* payload extraction, frame reassembly (replay and live drivers), sample  *)
(* normalisation, the shared dual-slot curve state and the two acquisition *)
(* loops running against the presentation thread.                          *)
(***************************************************************************)
EXTENDS Integers, Sequences, FiniteSets, TLC

(***************************************************************************)
(* config.rs                                                               *)
(***************************************************************************)
REPORT_DATA_SIZE == 64
READ_SIZE == 65
POINTS_PER_CURVE == 512
REPORTS_PER_CURVE == 32
HEADER_MAGIC == <<240, 255>>

(***************************************************************************)
(* Option<T> and Result<T, String>                                         *)
(***************************************************************************)
None == <<>>
Some(x) == <<x>>
IsSome(o) == Len(o) = 1
Unwrap(o) == o[1]

Ok(v) == [ok |-> TRUE, val |-> v]
Err(e) == [ok |-> FALSE, err |-> e]

Min(a, b) == IF a <= b THEN a ELSE b
Max(a, b) == IF a >= b THEN a ELSE b
Abs(a) == IF a < 0 THEN -a ELSE a

(***************************************************************************)
(* backend.rs: extract_payload.  Rust slices are 0-based, TLA+ sequences   *)
(* 1-based: report[1..] is Tail(report).                                   *)
(***************************************************************************)
\* a variant that keeps the report ID of a READ_SIZE report
extract_payload_keep_id(report) ==
    IF Len(report) = 0 THEN None
    ELSE IF Len(report) = READ_SIZE THEN Some(report)
    ELSE IF Len(report) = REPORT_DATA_SIZE THEN Some(report)
    ELSE None

\* a variant that takes a report of any length as its own payload
extract_payload_any(report) ==
    IF Len(report) = 0 THEN None ELSE Some(report)

extract_payload(report) ==
    IF Len(report) = 0 THEN None
    ELSE IF Len(report) = READ_SIZE THEN Some(Tail(report))
    ELSE IF Len(report) = REPORT_DATA_SIZE THEN Some(report)
    ELSE None

\* a variant header test that looks at the first magic byte only
IsHeaderFirstByte(payload) ==
    /\ Len(payload) >= 3
    /\ payload[1] = HEADER_MAGIC[1]

\* the header test of both drivers (backend.rs 208-210 and 259-261)
IsHeader(payload) ==
    /\ Len(payload) >= 3
    /\ payload[1] = HEADER_MAGIC[1]
    /\ payload[2] = HEADER_MAGIC[2]

(***************************************************************************)
(* IEEE-754 binary32 values, kept as their bit pattern with the sign taken *)
(* out: a finite f32 of magnitude m * 2^e, 2^23 <= m < 2^24, is the        *)
(* integer +/- ((e + 150) * 2^23 + (m - 2^23)), and zero is 0; so 1.0 is   *)
(* 127 * 2^23, and magnitudes compare as the integers do.                  *)
(* Every raw sample is a u16, so `as f32`, the centring subtraction and    *)
(* the max/abs folds are exact on integers below 2^24; only the final      *)
(* division rounds (to nearest, ties to even).                             *)
(***************************************************************************)
TwoTo23 == 2^23
TwoTo24 == 2^24

F32Bits(m, e) == (e + 150) * TwoTo23 + (m - TwoTo23)

F32Zero == 0
F32One == F32Bits(TwoTo23, 0 - 23)

\* quotient bits by long division: q = floor(a * 2^k / s), r = a * 2^k mod s
RECURSIVE F32DivBits(_, _, _, _)
F32DivBits(q, r, s, k) ==
    IF q >= TwoTo23
    THEN LET up == (2 * r > s) \/ (2 * r = s /\ q % 2 = 1)
             qq == IF up THEN q + 1 ELSE q
         IN  IF qq = TwoTo24 THEN F32Bits(TwoTo23, 1 - k)
                             ELSE F32Bits(qq, 0 - k)
    ELSE F32DivBits(2 * q + (IF 2 * r >= s THEN 1 ELSE 0),
                    IF 2 * r >= s THEN 2 * r - s ELSE 2 * r, s, k + 1)

\* what a division by 0.0 gives: NaN for 0.0 / 0.0, an infinity otherwise
F32NaN == 255 * TwoTo23 + TwoTo23 \div 2
F32Inf == 255 * TwoTo23

\* x / s in f32 for integers |x| < 2^24, 0 <= s < 2^24 (curve.rs 67-68)
F32Div(x, s) ==
    IF s = 0 THEN (IF x = 0 THEN F32NaN ELSE IF x < 0 THEN 0 - F32Inf ELSE F32Inf)
    ELSE IF x = 0 THEN F32Zero
    ELSE LET a == Abs(x)
             p == F32DivBits(a \div s, a % s, s, 0)
         IN  IF x < 0 THEN 0 - p ELSE p

(***************************************************************************)
(* curve.rs: parse_and_normalize_curve_data                                *)
(***************************************************************************)
\* a variant that reads the two bytes big endian
read_u16_big(raw, off) == 256 * raw[off + 1] + raw[off + 2]

\* a variant that reads the low byte only
read_u16_low(raw, off) == raw[off + 1]

\* LittleEndian::read_u16 of the two bytes at 0-based offset off
read_u16(raw, off) == raw[off + 1] + 256 * raw[off + 2]

\* a variant that takes the lower of the two central elements
SortedAtLowerMiddle(s, k) ==
    LET vals == {s[i] : i \in 1..Len(s)}
        low == (Len(s) - 1) \div 2
    IN  CHOOSE v \in vals :
          /\ Cardinality({i \in 1..Len(s) : s[i] < v}) <= low
          /\ Cardinality({i \in 1..Len(s) : s[i] <= v}) > low

\* a variant that indexes the vector as it came, unsorted
SortedAtUnsorted(s, k) == s[k + 1]

\* element at 0-based index k of the ascending sort of s (sort_by + index)
SortedAt(s, k) ==
    LET vals == {s[i] : i \in 1..Len(s)}
    IN  CHOOSE v \in vals :
          /\ Cardinality({i \in 1..Len(s) : s[i] < v}) <= k
          /\ Cardinality({i \in 1..Len(s) : s[i] <= v}) > k

\* iter().map(abs).fold(0.0, f32::max)
MaxAbs(s) ==
    LET vals == {Abs(s[i]) : i \in 1..Len(s)} \cup {0}
    IN  CHOOSE v \in vals : \A w \in vals : w <= v

\* a Vec built from a map: the elements are computed once, in order
Vec(f) == f \o <<>>

\* a variant that takes the scale from the current alone
ScaleCurrentOnly(i_vec, v_vec) == Max(MaxAbs(i_vec), 1)

\* a variant without the floor of 1.0
ScaleNoFloor(i_vec, v_vec) == Max(MaxAbs(i_vec), MaxAbs(v_vec))

\* max_i.max(max_v).max(1.0)
Scale(i_vec, v_vec) == Max(Max(MaxAbs(i_vec), MaxAbs(v_vec)), 1)

\* a variant that counts a quad only when a byte follows it
PairCountWantsMore(raw) == Min((Len(raw) - 1) \div 4, POINTS_PER_CURVE)

\* (raw.len() / 4).min(POINTS_PER_CURVE): the number of turns of the loop
PairCount(raw) == Min(Len(raw) \div 4, POINTS_PER_CURVE)

NoPairs == "Aucune paire de donnees extraite"

parse_and_normalize_curve_data(data_bytes) ==
    LET raw_len == Min(POINTS_PER_CURVE * 4, Len(data_bytes))
        raw == SubSeq(data_bytes, 1, raw_len)
        n == PairCount(raw)
        currents == Vec([i \in 1..n |-> read_u16(raw, (i - 1) * 4)])
        voltages == Vec([i \in 1..n |-> read_u16(raw, (i - 1) * 4 + 2)])
    IN  IF n = 0 THEN Err(NoPairs)
        ELSE LET median_current == SortedAt(currents, n \div 2)
                 median_voltage == SortedAt(voltages, n \div 2)
                 i_vec == Vec([i \in 1..n |-> currents[i] - median_current])
                 v_vec == Vec([i \in 1..n |-> voltages[i] - median_voltage])
                 scale == Scale(i_vec, v_vec)
                 v_norm == Vec([i \in 1..n |-> F32Div(v_vec[i], scale)])
                 i_norm == Vec([i \in 1..n |-> F32Div(i_vec[i], scale)])
             IN  Ok(<<v_norm, i_norm>>)

(***************************************************************************)
(* main.rs: its own copy of parse_and_normalize_curve_data (614-654).  The *)
(* slice bound of line 615 is POINTS_PER_CURVE * 4.min(data_bytes.len()):  *)
(* the method call binds before the product.  A bound beyond the length of *)
(* the buffer makes the slicing panic; the call then returns nothing.      *)
(***************************************************************************)
Panicked(msg) == [ok |-> FALSE, panic |-> msg]

SliceEndPanic == "range end index out of range for slice"

main_parse_and_normalize_curve_data(data_bytes) ==
    LET raw_end == POINTS_PER_CURVE * Min(4, Len(data_bytes))
    IN  IF raw_end > Len(data_bytes) THEN Panicked(SliceEndPanic)
        ELSE
    LET raw == SubSeq(data_bytes, 1, raw_end)
        n == PairCount(raw)
        currents == Vec([i \in 1..n |-> read_u16(raw, (i - 1) * 4)])
        voltages == Vec([i \in 1..n |-> read_u16(raw, (i - 1) * 4 + 2)])
    IN  IF n = 0 THEN Err(NoPairs)
        ELSE LET median_current == SortedAt(currents, n \div 2)
                 median_voltage == SortedAt(voltages, n \div 2)
                 i_vec == Vec([i \in 1..n |-> currents[i] - median_current])
                 v_vec == Vec([i \in 1..n |-> voltages[i] - median_voltage])
                 scale == Scale(i_vec, v_vec)
                 v_norm == Vec([i \in 1..n |-> F32Div(v_vec[i], scale)])
                 i_norm == Vec([i \in 1..n |-> F32Div(i_vec[i], scale)])
             IN  Ok(<<v_norm, i_norm>>)

\* CurveData { voltage, current, channel }
CurveData(v, i, ch) == [voltage |-> v, current |-> i, channel |-> ch]

(***************************************************************************)
(* backend.rs: read_one_curve_from_reports (replay driver).  start_idx is  *)
(* the 0-based cursor; the result carries the cursor the caller sees.      *)
(***************************************************************************)
NoHeader == "Pas de header trouve"
NotEnough == "Pas assez de rapports restants"
BadPayload == "Payload invalide"

\* a variant search that rewinds the cursor itself when it finds no header
RECURSIVE SeekHeaderRewinds(_, _)
SeekHeaderRewinds(reports, idx) ==
    IF idx < Len(reports)
    THEN LET p == extract_payload(reports[idx + 1])
         IN  IF IsSome(p) /\ IsHeader(Unwrap(p))
             THEN <<TRUE, Unwrap(p)[3], idx + 1>>
             ELSE SeekHeaderRewinds(reports, idx + 1)
    ELSE <<FALSE, 1, 0>>

\* the header search (backend.rs 206-219): <<header_found, channel_id, idx>>
RECURSIVE SeekHeader(_, _)
SeekHeader(reports, idx) ==
    IF idx < Len(reports)
    THEN LET p == extract_payload(reports[idx + 1])
         IN  IF IsSome(p) /\ IsHeader(Unwrap(p))
             THEN <<TRUE, Unwrap(p)[3], idx + 1>>
             ELSE SeekHeader(reports, idx + 1)
    ELSE <<FALSE, 1, idx>>

\* a variant of the accumulation loop that leaves out a payload that begins
\* with the magic
RECURSIVE AccumulateDropsMagic(_, _, _, _)
AccumulateDropsMagic(reports, base, i, data_bytes) ==
    IF i = REPORTS_PER_CURVE THEN Some(data_bytes)
    ELSE LET p == extract_payload(reports[base + i + 1])
         IN  IF IsSome(p)
             THEN AccumulateDropsMagic(reports, base, i + 1,
                      IF IsHeader(Unwrap(p)) THEN data_bytes
                                             ELSE data_bytes \o Unwrap(p))
             ELSE None

\* a variant of the accumulation loop that ends one report early
RECURSIVE AccumulateShort(_, _, _, _)
AccumulateShort(reports, base, i, data_bytes) ==
    IF i = REPORTS_PER_CURVE - 1 THEN Some(data_bytes)
    ELSE LET p == extract_payload(reports[base + i + 1])
         IN  IF IsSome(p)
             THEN AccumulateShort(reports, base, i + 1, data_bytes \o Unwrap(p))
             ELSE None

\* the accumulation loop (backend.rs 229-236): Some(data_bytes), or None on
\* the first report that has no payload
RECURSIVE Accumulate(_, _, _, _)
Accumulate(reports, base, i, data_bytes) ==
    IF i = REPORTS_PER_CURVE THEN Some(data_bytes)
    ELSE LET p == extract_payload(reports[base + i + 1])
         IN  IF IsSome(p)
             THEN Accumulate(reports, base, i + 1, data_bytes \o Unwrap(p))
             ELSE None

(***************************************************************************)
(* Reports as the device or a capture file delivers them.                  *)
(***************************************************************************)
Zeros(n) == [i \in 1..n |-> 0]

\* a header payload: magic, channel byte, padding
HeaderPayload(ch) == HEADER_MAGIC \o <<ch>> \o Zeros(REPORT_DATA_SIZE - 3)

\* data payload k of a frame: 16 quads (current lo, hi, voltage lo, hi)
DataPayload(seed, k) ==
    [j \in 1..REPORT_DATA_SIZE |->
        CASE j % 4 = 1 -> ((seed + k) * (seed + k)) % 256
          [] j % 4 = 2 -> 0
          [] j % 4 = 3 -> (seed + 3 * k) % 256
          [] OTHER     -> 1]

\* the report-ID-prefixed form of a payload (READ_SIZE bytes)
WithId(payload) == <<0>> \o payload

\* a report of a length that is neither 64 nor 65
ShortReport == <<240, 255, 0>>

\* a 64-byte payload that is no header
NoisePayload == <<240, 0>> \o Zeros(REPORT_DATA_SIZE - 2)

\* report k of a frame body, bare or ID-prefixed as form says
BodyReport(seed, k, form) ==
    IF form = "bare" \/ (form = "mixed" /\ k % 2 = 0)
    THEN DataPayload(seed, k) ELSE WithId(DataPayload(seed, k))

\* the n first body reports of a frame
Body(seed, n, form) == [k \in 1..n |-> BodyReport(seed, k, form)]

\* a well-formed frame: header then REPORTS_PER_CURVE body reports
Frame(ch, seed, form) ==
    <<IF form = "bare" THEN HeaderPayload(ch) ELSE WithId(HeaderPayload(ch))>>
        \o Body(seed, REPORTS_PER_CURVE, form)

(***************************************************************************)
(* The report sequences the runs are checked on.  In replay mode a capture *)
(* is the `reports` vector loaded from the file (backend.rs 120-134); in   *)
(* live mode it is what successive device.read calls deliver, after which  *)
(* the device stalls.                                                      *)
(***************************************************************************)
MaxJunk == 1

\* n reports that are no header: noise and wrong-length alternating
Junk(n) == [i \in 1..n |-> IF i % 2 = 1 THEN NoisePayload ELSE ShortReport]

\* exactly one well-formed frame, for channel 0, between junk
CapSingle(j) == Junk(j) \o Frame(0, 1, "id") \o Junk(j)

\* a frame whose body report k is a payload that begins with the magic
FrameWithMagic(ch, seed, form, k) ==
    [Frame(ch, seed, form) EXCEPT ![k + 1] = HeaderPayload(0)]

\* two frames, one per channel, a wrong-length report between them; the
\* body of the first holds a payload that begins with the magic
CapTwo == FrameWithMagic(1, 2, "bare", 3) \o <<ShortReport>> \o Frame(0, 3, "mixed")

\* two frames that both select slot channel1
CapSame == Frame(7, 4, "bare") \o Frame(1, 5, "id")

\* a frame, then a header followed by fewer than REPORTS_PER_CURVE reports
CapTrunc ==
    Frame(255, 6, "bare") \o <<NoisePayload, HeaderPayload(0)>> \o Body(7, 5, "bare")

\* a header whose body holds a wrong-length report, then a good frame
CapBad ==
    <<HeaderPayload(0)>> \o Body(8, 3, "bare") \o <<ShortReport>>
        \o Frame(1, 9, "bare")

\* a frame whose third data payload begins with the magic, and a frame of
\* the other channel right after it
CapMagic == FrameWithMagic(1, 10, "bare", 3) \o Frame(0, 11, "id")

\* no header at all
CapNone == <<NoisePayload, ShortReport, WithId(NoisePayload)>>

(***************************************************************************)
(* The text of a capture file: a line is a sequence of characters.         *)
(***************************************************************************)
HexDigits ==
    <<"0", "1", "2", "3", "4", "5", "6", "7", "8", "9", "A", "B", "C", "D", "E", "F">>
LowerDigits == <<"a", "b", "c", "d", "e", "f">>

\* char::is_ascii_hexdigit
is_ascii_hexdigit(ch) ==
    \/ \E d \in 1..Len(HexDigits) : HexDigits[d] = ch
    \/ \E d \in 1..Len(LowerDigits) : LowerDigits[d] = ch

\* the value u8::from_str_radix gives one digit
DigitValue(ch) ==
    IF \E d \in 1..Len(HexDigits) : HexDigits[d] = ch
    THEN (CHOOSE d \in 1..Len(HexDigits) : HexDigits[d] = ch) - 1
    ELSE (CHOOSE d \in 1..Len(LowerDigits) : LowerDigits[d] = ch) + 9

\* line.chars().filter(|c| c.is_ascii_hexdigit()).collect()
RECURSIVE Clean(_)
Clean(line) ==
    IF Len(line) = 0 THEN <<>>
    ELSE IF Len(line) = 1
    THEN IF is_ascii_hexdigit(line[1]) THEN line ELSE <<>>
    ELSE LET half == Len(line) \div 2
         IN  Clean(SubSeq(line, 1, half)) \o Clean(SubSeq(line, half + 1, Len(line)))

\* parse_hex_line: the digits are taken two by two; a last digit without a
\* partner fails the test i + 1 < clean.len() and is passed over
parse_hex_line(line) ==
    LET clean == Clean(line)
    IN  Ok([b \in 1..(Len(clean) \div 2) |->
               16 * DigitValue(clean[2 * b - 1]) + DigitValue(clean[2 * b])])

\* str::trim on the blanks of a line
Trim(line) ==
    LET inked == {i \in 1..Len(line) : line[i] # " "}
    IN  IF inked = {} THEN <<>>
        ELSE SubSeq(line, CHOOSE i \in inked : \A j \in inked : i <= j,
                          CHOOSE i \in inked : \A j \in inked : i >= j)

\* the loop of run_file_reader over the lines of the file, and the test
\* that follows it
RECURSIVE LoadLines(_, _)
LoadLines(lines, reports) ==
    IF lines = <<>>
    THEN IF reports = <<>> THEN Err("Aucune donnee trouvee dans le fichier")
         ELSE Ok(reports)
    ELSE LET line == Trim(Head(lines))
         IN  IF line = <<>> \/ line[1] = "#"
             THEN LoadLines(Tail(lines), reports)
             ELSE LET bytes == parse_hex_line(line)
                  IN  IF ~bytes.ok THEN bytes
                      ELSE IF bytes.val # <<>>
                      THEN LoadLines(Tail(lines), Append(reports, Vec(bytes.val)))
                      ELSE LoadLines(Tail(lines), reports)

\* the reports a replay run works on; none when the load fails
Loaded(lines) ==
    LET res == LoadLines(lines, <<>>)
    IN  IF res.ok THEN res.val ELSE <<>>

\* a report as a line of the capture file: two digits and a blank per byte
HexLine(report) ==
    [i \in 1..(3 * Len(report)) |->
        LET byte == report[(i + 2) \div 3]
        IN  IF i % 3 = 1 THEN HexDigits[(byte \div 16) + 1]
            ELSE IF i % 3 = 2 THEN HexDigits[(byte % 16) + 1]
            ELSE " "]

HexText(reports) == [r \in 1..Len(reports) |-> HexLine(reports[r])]

\* a capture file of one frame in which the header line has a digit too
\* many, the next line ends in a token that is no hex, and one line holds
\* such a token only
OddText ==
    LET text == HexText(Frame(0, 6, "bare"))
    IN  <<<<"#", " ", "c", "h", "0">>, text[1] \o <<"F">>, text[2] \o <<"z", "z">>,
          <<"z", "z">>>>
            \o SubSeq(text, 3, Len(text))

\* a capture file of comments and blank lines
EmptyText == <<<<"#", " ", "v", "i", "d", "e">>, <<>>, <<" ", " ">>>>

CapOdd == Loaded(OddText)
CapEmpty == Loaded(EmptyText)

Captures ==
    [j \in 1..(MaxJunk + 1) |-> CapSingle(j - 1)]
        \o <<CapTwo, CapSame, CapTrunc, CapBad, CapNone, CapOdd, CapEmpty, CapMagic>>

NumCaptures == Len(Captures)

\* the captures a replay run is given, and the streams a live run is given
FileCaptures == 1..NumCaptures
LiveCaptures ==
    {c \in 1..NumCaptures :
        c > MaxJunk + 1 /\ Captures[c] \notin {CapSame, CapOdd, CapEmpty}}

(***************************************************************************)
(* parse_and_normalize_curve_data tabulated on the complete frame bodies   *)
(* that occur in the captures, so that a decode is computed once.          *)
(***************************************************************************)
FrameBodies ==
    LET after(reports) == {i \in 1..Len(reports) :
                              /\ i + REPORTS_PER_CURVE <= Len(reports)
                              /\ LET p == extract_payload(reports[i])
                                 IN  IsSome(p) /\ IsHeader(Unwrap(p))}
        streams == {Captures[c] : c \in 1..Len(Captures)}
        win == UNION {{Accumulate(reports, i, 0, <<>>) : i \in after(reports)} :
                         reports \in streams}
    IN  {Unwrap(w) : w \in {v \in win : IsSome(v)}}

NormTable == {<<b, parse_and_normalize_curve_data(b)>> : b \in FrameBodies}

\* the decode of data_bytes: taken from the table when it is there
Lookup(table, data_bytes) ==
    IF \E t \in table : t[1] = data_bytes
    THEN (CHOOSE t \in table : t[1] = data_bytes)[2]
    ELSE parse_and_normalize_curve_data(data_bytes)

\* the call parse_and_normalize_curve_data(&data_bytes) of the two drivers
Normalized(data_bytes) == Lookup(NormTable, data_bytes)

\* a variant of the length test that also refuses a frame ending the stream
NotEnoughLeftInclusive(idx, n) == idx + REPORTS_PER_CURVE >= n

\* a variant of the length test that only refuses a cursor at the end
NotEnoughLeftAtEnd(idx, n) == idx >= n

\* if *start_idx + REPORTS_PER_CURVE > reports.len()
NotEnoughLeft(idx, n) == idx + REPORTS_PER_CURVE > n

read_one_curve_from_reports(reports, start_idx) ==
    LET h == SeekHeader(reports, start_idx)
        header_found == h[1]
        channel_id == h[2]
        idx == h[3]
    IN  IF ~header_found THEN [res |-> Err(NoHeader), start_idx |-> idx]
        ELSE IF NotEnoughLeft(idx, Len(reports))
        THEN [res |-> Err(NotEnough), start_idx |-> idx]
        ELSE LET acc == Accumulate(reports, idx, 0, <<>>)
             IN  IF ~IsSome(acc) THEN [res |-> Err(BadPayload), start_idx |-> idx]
                 ELSE LET norm == Normalized(Unwrap(acc))
                          idx2 == idx + REPORTS_PER_CURVE
                      IN  IF ~norm.ok
                          THEN [res |-> Err(norm.err), start_idx |-> idx2]
                          ELSE [res |-> Ok(CurveData(norm.val[1], norm.val[2], channel_id)),
                                start_idx |-> idx2]

(***************************************************************************)
(* The running application: one acquisition thread (replay or live) and    *)
(* the presentation thread, sharing curve_data, error_message and running. *)
(***************************************************************************)
MaxReadErrors == 1

VARIABLES
    use_file_mode,      \* CT220SApp.use_file_mode: replay (TRUE) or live
    hid_backend,        \* CT220SApp.hid_backend: Option<Arc<Mutex<HidBackend>>>
    spawned,            \* the acquisition threads CT220SApp::new has spawned
    cap,                \* which capture the file / the device delivers
    curve_data,         \* Arc<Mutex<DualCurveData>>: the two slots
    error_message,      \* Arc<Mutex<Option<String>>>: the status sink
    running,            \* Arc<Mutex<bool>>
    data_lock,          \* holder of the curve_data mutex
    device_lock,        \* holder of the HidDevice mutex
    pc_acq,             \* position of the acquisition thread
    report_idx,         \* run_file_reader: the replay cursor
    curve,              \* the Result of the read of this iteration
    dev_pos,            \* reports the device has delivered so far
    read_errs,          \* device read errors so far
    hid_channel_id,     \* read_one_curve: channel_id
    hid_data_bytes,     \* read_one_curve: data_bytes
    hid_i,              \* read_one_curve: payloads accumulated
    pc_ui,              \* position of the presentation thread
    dual_mode,          \* CT220SApp.dual_mode
    ui_op,              \* what the presentation thread took the lock for
    snap,               \* what the presentation thread has read under the lock
    published,          \* history: every curve a successful read returned
    last_ok,            \* history: per slot, the curve of the last successful read
    last_iter,          \* history: how the last read ended ("none", "ok", "err")
    read_from,          \* history: the replay cursor the last read started from
    after_stop,         \* history: replay publishes and steps since running = false
    outcomes,           \* history: how each read ended, up to the end of the
                        \* first replay pass
    fn_name,            \* a function called on its own: which one
    fn_arg,             \* its argument
    fn_ret,             \* what it returned
    fn_prev,            \* the argument and result of the call before
    fn_pc               \* "idle", "call", "ret", "call2", "ret2"

app_vars == <<use_file_mode, hid_backend, spawned, cap, curve_data, error_message,
              running, data_lock, device_lock, pc_acq, report_idx, curve, dev_pos,
              read_errs, hid_channel_id, hid_data_bytes, hid_i, pc_ui, dual_mode,
              ui_op, snap, published, last_ok, last_iter, read_from, after_stop,
              outcomes>>
fn_vars == <<fn_name, fn_arg, fn_ret, fn_prev, fn_pc>>
vars == <<app_vars, fn_vars>>

shared_vars == <<curve_data, error_message, running, data_lock>>
hid_vars == <<device_lock, dev_pos, read_errs, hid_channel_id, hid_data_bytes, hid_i>>
ui_vars == <<pc_ui, dual_mode, ui_op, snap>>
hist_vars == <<published, last_ok, last_iter, read_from, outcomes>>
fixed_vars == <<use_file_mode, hid_backend, spawned, cap>>

\* the reports of this run
Reports == Captures[cap]

\* DualCurveData::new
NewDualCurveData == [channel0 |-> None, channel1 |-> None]

NoResult == "none"
NoSnap == [channel0 |-> None, channel1 |-> None]

\* a variant lock that excludes no one
CanLockAlways(holder) == TRUE

\* std::sync::Mutex::lock returns only when no one holds the mutex
CanLock(holder) == holder = "free"

\* a variant that sends every channel but 1 to slot channel0
SlotOfOneOnly(c) == IF c.channel = 1 THEN "channel1" ELSE "channel0"

\* a variant with the two slots exchanged
SlotOfSwapped(c) == IF c.channel = 0 THEN "channel1" ELSE "channel0"

\* the slot `if curve.channel == 0 { channel0 } else { channel1 }` selects
SlotOf(c) == IF c.channel = 0 THEN "channel0" ELSE "channel1"

\* format!("Erreur: {}", e)
ErreurMsg(e) == <<"Erreur: ", e>>

\* format!("Erreur de lecture: {}", e) of a failed device.read
ReadErr == "Erreur de lecture: hid"

(***************************************************************************)
(* `data.channelN = Some(curve)` moves a three-field struct into the slot: *)
(* the voltage vector is written first, then current and channel.  Between *)
(* the two writes the slot holds the new voltage beside the old remainder  *)
(* (blank if the slot was None).                                           *)
(***************************************************************************)
BlankCurve == CurveData(<<>>, <<>>, 0)

StoreVoltage(data, c) ==
    LET old == IF IsSome(data[SlotOf(c)]) THEN Unwrap(data[SlotOf(c)]) ELSE BlankCurve
    IN  [data EXCEPT ![SlotOf(c)] = Some(CurveData(c.voltage, old.current, old.channel))]

\* a variant second write that keeps the current vector a slot already holds
StoreRestMerge(data, c) ==
    [data EXCEPT ![SlotOf(c)] =
        Some(CurveData(Unwrap(@).voltage,
                       IF Unwrap(@).current = <<>> THEN c.current ELSE Unwrap(@).current,
                       c.channel))]

StoreRest(data, c) ==
    [data EXCEPT ![SlotOf(c)] = Some(CurveData(Unwrap(@).voltage, c.current, c.channel))]

\* what a read amounts to: success, the channel of the curve, and the frame
\* (1-based position of its header in the stream, 0 if no header was met)
Outcome(ok, channel, frame) == [ok |-> ok, channel |-> channel, frame |-> frame]

\* the first replay pass ends with its first failure (report_idx = 0)
Logged(entry) ==
    outcomes' = IF use_file_mode /\ outcomes # <<>> /\ ~outcomes[Len(outcomes)].ok
                THEN outcomes ELSE Append(outcomes, entry)

\* history of a read: Ok(c), or a failure
RecordOk(c, frame) ==
    /\ published' = published \cup {c}
    /\ last_ok' = [last_ok EXCEPT ![IF c.channel = 0 THEN 0 ELSE 1] = Some(c)]
    /\ last_iter' = "ok"
    /\ Logged(Outcome(TRUE, c.channel, frame))

RecordErr(frame) ==
    /\ last_iter' = "err"
    /\ Logged(Outcome(FALSE, 0 - 1, frame))
    /\ UNCHANGED <<published, last_ok>>

\* a variant of the start-up that spawns the live thread whatever the mode
SpawnedBoth(file_mode, backend) ==
    (IF file_mode THEN {"replay"} ELSE {}) \cup {"live"}

\* the thread::spawn calls of CT220SApp::new (app.rs 43-84)
Spawned(file_mode, backend) ==
    IF ~file_mode
    THEN IF IsSome(backend) THEN {"live"} ELSE {}
    ELSE {"replay"}

\* HidBackend::new fails: format!("Erreur USB: {}", e)
ErreurUsb == <<"Erreur USB: ", "Impossible d'ouvrir le peripherique: hid">>

AppInit ==
    /\ use_file_mode \in BOOLEAN
    /\ hid_backend \in IF use_file_mode THEN {None} ELSE {None, Some("HidBackend")}
    /\ spawned = Spawned(use_file_mode, hid_backend)
    /\ cap \in IF spawned = {} THEN {1}
               ELSE IF use_file_mode THEN FileCaptures ELSE LiveCaptures
    /\ curve_data = NewDualCurveData
    /\ error_message = IF use_file_mode THEN None
                       ELSE IF IsSome(hid_backend)
                       THEN Some(<<"Peripherique USB connecte">>)
                       ELSE Some(ErreurUsb)
    /\ running = TRUE
    /\ data_lock = "free"
    /\ device_lock = "free"
    /\ pc_acq = IF spawned = {} THEN "not_started" ELSE "start"
    /\ report_idx = 0
    /\ curve = NoResult
    /\ dev_pos = 0
    /\ read_errs = 0
    /\ hid_channel_id = 1
    /\ hid_data_bytes = <<>>
    /\ hid_i = 0
    /\ pc_ui = "idle"
    /\ dual_mode = use_file_mode
    /\ ui_op = "none"
    /\ snap = NoSnap
    /\ published = {}
    /\ last_ok = [n \in {0, 1} |-> None]
    /\ last_iter = "none"
    /\ read_from = 0
    /\ after_stop = [pubs |-> 0, steps |-> 0]
    /\ outcomes = <<>>

\* no function is called on its own
NoCall ==
    /\ fn_name = "none"
    /\ fn_arg = <<>>
    /\ fn_ret = None
    /\ fn_prev = None
    /\ fn_pc = "idle"

Init == AppInit /\ NoCall

(***************************************************************************)
(* run_file_reader / run_hid_reader                                        *)
(***************************************************************************)
\* the status written before the loop (backend.rs 141 and 80)
AcqStart ==
    /\ pc_acq = "start"
    /\ use_file_mode => Reports # <<>>
    /\ error_message' = IF use_file_mode
                        THEN Some(<<"Fichier charge: ", ToString(Len(Reports)), " rapports">>)
                        ELSE Some(<<"Lecture en cours...">>)
    /\ pc_acq' = "check"
    /\ UNCHANGED <<fixed_vars, curve_data, running, data_lock, report_idx, curve,
                   hid_vars, ui_vars, hist_vars>>

\* if reports.is_empty() { return Err(..) }: the thread prints the error
\* and ends
AcqLoadFails ==
    /\ pc_acq = "start"
    /\ use_file_mode
    /\ Reports = <<>>
    /\ pc_acq' = "load_err"
    /\ UNCHANGED <<fixed_vars, curve_data, error_message, running, data_lock,
                   report_idx, curve, hid_vars, ui_vars, hist_vars>>

\* while *running.lock().unwrap()
AcqCheck ==
    /\ pc_acq = "check"
    /\ pc_acq' = IF ~running THEN "done"
                 ELSE IF use_file_mode THEN "read" ELSE "lock_dev"
    /\ UNCHANGED <<fixed_vars, shared_vars, report_idx, curve, hid_vars, ui_vars,
                   hist_vars>>

\* match read_one_curve_from_reports(&reports, &mut report_idx)
FileRead ==
    /\ pc_acq = "read"
    /\ use_file_mode
    /\ \E out \in {read_one_curve_from_reports(Reports, report_idx)} :
           /\ report_idx' = out.start_idx
           /\ curve' = out.res
           /\ pc_acq' = IF out.res.ok THEN "lock_data" ELSE "err"
           /\ IF out.res.ok
              THEN RecordOk(out.res.val, out.start_idx - REPORTS_PER_CURVE)
              ELSE RecordErr(IF out.res.err = NoHeader THEN 0 ELSE out.start_idx)
    /\ read_from' = report_idx
    /\ UNCHANGED <<fixed_vars, shared_vars, hid_vars, ui_vars>>

\* a variant Err(e) arm that leaves the cursor where the failed call left it
FileErrNoReset ==
    /\ pc_acq = "err"
    /\ use_file_mode
    /\ error_message' = Some(ErreurMsg(curve.err))
    /\ curve' = NoResult
    /\ pc_acq' = "sleep"
    /\ UNCHANGED <<fixed_vars, curve_data, running, data_lock, report_idx, hid_vars,
                   ui_vars, hist_vars>>

\* a variant Err(e) arm that returns the error to the caller of the loop
FileErrReturns ==
    /\ pc_acq = "err"
    /\ use_file_mode
    /\ curve' = NoResult
    /\ pc_acq' = "done"
    /\ UNCHANGED <<fixed_vars, shared_vars, report_idx, hid_vars, ui_vars, hist_vars>>

\* Err(e) arm of run_file_reader: status, then report_idx = 0
FileErr ==
    /\ pc_acq = "err"
    /\ use_file_mode
    /\ error_message' = Some(ErreurMsg(curve.err))
    /\ report_idx' = 0
    /\ curve' = NoResult
    /\ pc_acq' = "sleep"
    /\ UNCHANGED <<fixed_vars, curve_data, running, data_lock, hid_vars, ui_vars,
                   hist_vars>>

\* a variant Err(e) arm that also empties the two slots
HidErrDropsData ==
    /\ pc_acq = "err"
    /\ ~use_file_mode
    /\ error_message' = Some(ErreurMsg(curve.err))
    /\ curve_data' = NewDualCurveData
    /\ curve' = NoResult
    /\ pc_acq' = "sleep"
    /\ UNCHANGED <<fixed_vars, running, data_lock, report_idx, hid_vars, ui_vars,
                   hist_vars>>

\* a variant Err(e) arm that leaves a status of the presentation thread alone
HidErrKeepsUiStatus ==
    /\ pc_acq = "err"
    /\ ~use_file_mode
    /\ error_message' = IF IsSome(error_message) /\ error_message[1][1] \in {"[ok] ", "[ok] Sauvegarde"}
                        THEN error_message ELSE Some(ErreurMsg(curve.err))
    /\ curve' = NoResult
    /\ pc_acq' = "sleep"
    /\ UNCHANGED <<fixed_vars, curve_data, running, data_lock, report_idx, hid_vars,
                   ui_vars, hist_vars>>

\* Err(e) arm of run_hid_reader
HidErr ==
    /\ pc_acq = "err"
    /\ ~use_file_mode
    /\ error_message' = Some(ErreurMsg(curve.err))
    /\ curve' = NoResult
    /\ pc_acq' = "sleep"
    /\ UNCHANGED <<fixed_vars, curve_data, running, data_lock, report_idx, hid_vars,
                   ui_vars, hist_vars>>

\* Ok(curve) arm: let mut data = curve_data.lock().unwrap()
AcqLockData ==
    /\ pc_acq = "lock_data"
    /\ CanLock(data_lock)
    /\ data_lock' = "acq"
    /\ pc_acq' = "store_voltage"
    /\ UNCHANGED <<fixed_vars, curve_data, error_message, running, report_idx, curve,
                   hid_vars, ui_vars, hist_vars>>

\* data.channelN = Some(curve), first write
AcqStoreVoltage ==
    /\ pc_acq = "store_voltage"
    /\ curve_data' = StoreVoltage(curve_data, curve.val)
    /\ pc_acq' = "store_rest"
    /\ UNCHANGED <<fixed_vars, error_message, running, data_lock, report_idx, curve,
                   hid_vars, ui_vars, hist_vars>>

\* data.channelN = Some(curve), second write
AcqStoreRest ==
    /\ pc_acq = "store_rest"
    /\ curve_data' = StoreRest(curve_data, curve.val)
    /\ pc_acq' = "clear_status"
    /\ UNCHANGED <<fixed_vars, error_message, running, data_lock, report_idx, curve,
                   hid_vars, ui_vars, hist_vars>>

\* *error_message.lock().unwrap() = None, the data guard still held
AcqClearStatus ==
    /\ pc_acq = "clear_status"
    /\ error_message' = None
    /\ pc_acq' = "unlock_data"
    /\ UNCHANGED <<fixed_vars, curve_data, running, data_lock, report_idx, curve,
                   hid_vars, ui_vars, hist_vars>>

\* a variant Ok arm whose data guard outlives the arm
AcqUnlockDataLate ==
    /\ pc_acq = "unlock_data"
    /\ curve' = NoResult
    /\ pc_acq' = "sleep"
    /\ UNCHANGED <<fixed_vars, curve_data, error_message, running, data_lock,
                   report_idx, hid_vars, ui_vars, hist_vars>>

\* end of the Ok arm: the data guard is dropped
AcqUnlockData ==
    /\ pc_acq = "unlock_data"
    /\ data_lock' = "free"
    /\ curve' = NoResult
    /\ pc_acq' = "sleep"
    /\ UNCHANGED <<fixed_vars, curve_data, error_message, running, report_idx,
                   hid_vars, ui_vars, hist_vars>>

\* a variant loop that goes on to the next read without testing running
AcqSleepNoCheck ==
    /\ pc_acq = "sleep"
    /\ pc_acq' = IF use_file_mode THEN "read" ELSE "lock_dev"
    /\ UNCHANGED <<fixed_vars, shared_vars, report_idx, curve, hid_vars, ui_vars,
                   hist_vars>>

\* thread::sleep, then back to the loop condition
AcqSleep ==
    /\ pc_acq = "sleep"
    /\ pc_acq' = "check"
    /\ UNCHANGED <<fixed_vars, shared_vars, report_idx, curve, hid_vars, ui_vars,
                   hist_vars>>

(***************************************************************************)
(* run_hid_reader: let dev = device.lock().unwrap(); read_one_curve(&*dev) *)
(* Each device.read is one step; the device guard is dropped when          *)
(* read_one_curve returns.                                                 *)
(***************************************************************************)
HidLockDev ==
    /\ pc_acq = "lock_dev"
    /\ CanLock(device_lock)
    /\ device_lock' = "acq"
    /\ hid_channel_id' = 1
    /\ pc_acq' = "seek"
    /\ UNCHANGED <<fixed_vars, shared_vars, report_idx, curve, dev_pos, read_errs,
                   hid_data_bytes, hid_i, ui_vars, hist_vars>>

\* device.read delivers the next report (it blocks when there is none)
DeviceHasReport == dev_pos < Len(Reports)
NextReport == Reports[dev_pos + 1]

\* a variant header wait that gives up on the first report that is no header
HidSeekReadGivesUp ==
    /\ pc_acq = "seek"
    /\ DeviceHasReport
    /\ dev_pos' = dev_pos + 1
    /\ LET payload == extract_payload(NextReport)
       IN  IF IsSome(payload) /\ IsHeader(Unwrap(payload))
           THEN /\ hid_channel_id' = Unwrap(payload)[3]
                /\ hid_data_bytes' = <<>>
                /\ hid_i' = 0
                /\ pc_acq' = "accum"
                /\ UNCHANGED <<curve, device_lock, hist_vars>>
           ELSE /\ curve' = Err(NoHeader)
                /\ device_lock' = "free"
                /\ pc_acq' = "err"
                /\ RecordErr(0)
                /\ UNCHANGED <<hid_channel_id, hid_data_bytes, hid_i, read_from>>
    /\ UNCHANGED <<fixed_vars, shared_vars, report_idx, read_errs, ui_vars>>

\* the header wait (backend.rs 252-267): one read that succeeds
HidSeekRead ==
    /\ pc_acq = "seek"
    /\ DeviceHasReport
    /\ dev_pos' = dev_pos + 1
    /\ LET payload == extract_payload(NextReport)
       IN  IF IsSome(payload) /\ IsHeader(Unwrap(payload))
           THEN /\ hid_channel_id' = Unwrap(payload)[3]
                /\ hid_data_bytes' = <<>>
                /\ hid_i' = 0
                /\ pc_acq' = "accum"
           ELSE UNCHANGED <<hid_channel_id, hid_data_bytes, hid_i, pc_acq>>
    /\ UNCHANGED <<fixed_vars, shared_vars, report_idx, curve, device_lock, read_errs,
                   ui_vars, hist_vars>>

\* the data loop (backend.rs 271-284): one read that succeeds
HidAccumRead ==
    /\ pc_acq = "accum"
    /\ DeviceHasReport
    /\ dev_pos' = dev_pos + 1
    /\ LET payload == extract_payload(NextReport)
           bytes == hid_data_bytes \o Unwrap(payload)
       IN  IF ~IsSome(payload)
           THEN /\ curve' = Err(BadPayload)
                /\ device_lock' = "free"
                /\ hid_data_bytes' = <<>>
                /\ hid_i' = 0
                /\ pc_acq' = "err"
                /\ RecordErr(dev_pos - hid_i)
           ELSE IF hid_i + 1 < REPORTS_PER_CURVE
           THEN /\ hid_data_bytes' = bytes
                /\ hid_i' = hid_i + 1
                /\ UNCHANGED <<curve, device_lock, pc_acq, published, last_ok,
                               last_iter, outcomes>>
           ELSE \E norm \in {Normalized(bytes)} :
                LET got == CurveData(norm.val[1], norm.val[2], hid_channel_id)
                IN  /\ curve' = IF norm.ok THEN Ok(got) ELSE Err(norm.err)
                    /\ device_lock' = "free"
                    /\ hid_data_bytes' = <<>>
                    /\ hid_i' = 0
                    /\ pc_acq' = IF norm.ok THEN "lock_data" ELSE "err"
                    /\ IF norm.ok THEN RecordOk(got, dev_pos - hid_i)
                                  ELSE RecordErr(dev_pos - hid_i)
    /\ UNCHANGED <<fixed_vars, shared_vars, report_idx, read_errs, hid_channel_id,
                   ui_vars, read_from>>

\* device.read fails, in either loop: map_err(...)? returns the error
HidReadFail ==
    /\ pc_acq \in {"seek", "accum"}
    /\ read_errs < MaxReadErrors
    /\ read_errs' = read_errs + 1
    /\ curve' = Err(ReadErr)
    /\ device_lock' = "free"
    /\ hid_data_bytes' = <<>>
    /\ hid_i' = 0
    /\ pc_acq' = "err"
    /\ RecordErr(IF pc_acq = "accum" THEN dev_pos - hid_i ELSE 0)
    /\ UNCHANGED <<fixed_vars, shared_vars, report_idx, dev_pos, hid_channel_id,
                   ui_vars, read_from>>

(***************************************************************************)
(* The presentation thread (app.rs): per update(), the mode radio, the PNG *)
(* export button and the draw; on_exit when the window closes.             *)
(***************************************************************************)
\* ui.radio_value(&mut self.dual_mode, ..)
UiToggleMode ==
    /\ pc_ui = "idle"
    /\ dual_mode' = ~dual_mode
    /\ UNCHANGED <<fixed_vars, shared_vars, pc_acq, report_idx, curve, hid_vars,
                   pc_ui, ui_op, snap, hist_vars>>

\* draw_dual_overlay / draw_single_channel(ui, 1, ..):
\* if let Ok(data) = self.curve_data.lock()
UiDrawLock ==
    /\ pc_ui = "idle"
    /\ CanLock(data_lock)
    /\ data_lock' = "ui"
    /\ ui_op' = "draw"
    /\ pc_ui' = IF dual_mode THEN "read_channel0" ELSE "read_channel1"
    /\ UNCHANGED <<fixed_vars, curve_data, error_message, running, pc_acq,
                   report_idx, curve, hid_vars, dual_mode, snap, hist_vars>>

\* the export button: if let Ok(data) = self.curve_data.lock()
UiExportLock ==
    /\ pc_ui = "idle"
    /\ CanLock(data_lock)
    /\ data_lock' = "ui"
    /\ ui_op' = "export"
    /\ pc_ui' = IF dual_mode THEN "read_channel0" ELSE "read_channel1"
    /\ UNCHANGED <<fixed_vars, curve_data, error_message, running, pc_acq,
                   report_idx, curve, hid_vars, dual_mode, snap, hist_vars>>

\* if let Some(curve) = &data.channel0
UiReadChannel0 ==
    /\ pc_ui = "read_channel0"
    /\ snap' = [snap EXCEPT !.channel0 = curve_data.channel0]
    /\ pc_ui' = "read_channel1"
    /\ UNCHANGED <<fixed_vars, shared_vars, pc_acq, report_idx, curve, hid_vars,
                   dual_mode, ui_op, hist_vars>>

\* a variant read that moves the curve out of the slot (Option::take)
UiReadChannel1Takes ==
    /\ pc_ui = "read_channel1"
    /\ snap' = [snap EXCEPT !.channel1 = curve_data.channel1]
    /\ curve_data' = [curve_data EXCEPT !.channel1 = None]
    /\ pc_ui' = IF ui_op = "export" THEN "export_status" ELSE "drawn"
    /\ UNCHANGED <<fixed_vars, error_message, running, data_lock, pc_acq, report_idx,
                   curve, hid_vars, dual_mode, ui_op, hist_vars>>

\* if let Some(curve) = &data.channel1
UiReadChannel1 ==
    /\ pc_ui = "read_channel1"
    /\ snap' = [snap EXCEPT !.channel1 = curve_data.channel1]
    /\ pc_ui' = IF ui_op = "export" THEN "export_status" ELSE "drawn"
    /\ UNCHANGED <<fixed_vars, shared_vars, pc_acq, report_idx, curve, hid_vars,
                   dual_mode, ui_op, hist_vars>>

\* Ok(_) of the export: the status is written with the data guard held
UiExportOk ==
    /\ pc_ui = "export_status"
    /\ dual_mode \/ IsSome(snap.channel1)
    /\ error_message' = Some(<<"[ok] Sauvegarde">>)
    /\ pc_ui' = "drawn"
    /\ UNCHANGED <<fixed_vars, curve_data, running, data_lock, pc_acq, report_idx,
                   curve, hid_vars, dual_mode, ui_op, snap, hist_vars>>

\* Err(e) of the export: no channel 1 data in single mode, or img.save fails
UiExportErr ==
    /\ pc_ui = "export_status"
    /\ error_message' =
          Some(<<"[x] Erreur: ", IF dual_mode \/ IsSome(snap.channel1)
                                THEN "Erreur sauvegarde PNG"
                                ELSE "Pas de donnees CH1">>)
    /\ pc_ui' = "drawn"
    /\ UNCHANGED <<fixed_vars, curve_data, running, data_lock, pc_acq, report_idx,
                   curve, hid_vars, dual_mode, ui_op, snap, hist_vars>>

\* the guard is dropped at the end of the if-let block
UiUnlockData ==
    /\ pc_ui = "drawn"
    /\ data_lock' = "free"
    /\ snap' = NoSnap
    /\ ui_op' = "none"
    /\ pc_ui' = "idle"
    /\ UNCHANGED <<fixed_vars, curve_data, error_message, running, pc_acq,
                   report_idx, curve, hid_vars, dual_mode, hist_vars>>

(***************************************************************************)
(* The command panel (app.rs 309-408), shown only when hid_backend is Some: *)
(* a button calls backend.lock().unwrap().send_cmd(cmd), then writes the   *)
(* status.  send_cmd (backend.rs 45-65) locks the device, writes once and  *)
(* drops the guard when it returns.                                        *)
(***************************************************************************)
Commands == {"SetFreq(0)"}

\* a variant panel that is shown whether or not there is a backend
UiCmdClickAnyway ==
    /\ pc_ui = "idle"
    /\ \E cmd \in Commands : ui_op' = cmd
    /\ pc_ui' = "cmd_lock"
    /\ UNCHANGED <<fixed_vars, shared_vars, pc_acq, report_idx, curve, hid_vars,
                   dual_mode, snap, hist_vars>>

\* a variant panel whose button is also served while the data guard of the
\* draw is held
UiCmdClickWhileDrawing ==
    /\ pc_ui \in {"idle", "drawn"}
    /\ IsSome(hid_backend)
    /\ \E cmd \in Commands : ui_op' = cmd
    /\ pc_ui' = "cmd_lock"
    /\ UNCHANGED <<fixed_vars, shared_vars, pc_acq, report_idx, curve, hid_vars,
                   dual_mode, snap, hist_vars>>

\* a button of the panel is clicked: send_cmd is entered
UiCmdClick ==
    /\ pc_ui = "idle"
    /\ IsSome(hid_backend)
    /\ \E cmd \in Commands : ui_op' = cmd
    /\ pc_ui' = "cmd_lock"
    /\ UNCHANGED <<fixed_vars, shared_vars, pc_acq, report_idx, curve, hid_vars,
                   dual_mode, snap, hist_vars>>

\* a variant of send_cmd that writes without taking the device mutex
UiCmdLockDevNoWait ==
    /\ pc_ui = "cmd_lock"
    /\ pc_ui' = "cmd_write"
    /\ UNCHANGED <<fixed_vars, shared_vars, pc_acq, report_idx, curve, hid_vars,
                   dual_mode, ui_op, snap, hist_vars>>

\* let device = self.device.lock().unwrap()
UiCmdLockDev ==
    /\ pc_ui = "cmd_lock"
    /\ CanLock(device_lock)
    /\ device_lock' = "ui"
    /\ pc_ui' = "cmd_write"
    /\ UNCHANGED <<fixed_vars, shared_vars, pc_acq, report_idx, curve, dev_pos,
                   read_errs, hid_channel_id, hid_data_bytes, hid_i, dual_mode,
                   ui_op, snap, hist_vars>>

\* device.write(&buf) succeeds or fails; send_cmd returns, the guard is dropped
UiCmdWrite ==
    /\ pc_ui = "cmd_write"
    /\ device_lock' = IF device_lock = "ui" THEN "free" ELSE device_lock
    /\ \E ok \in BOOLEAN : pc_ui' = IF ok THEN "cmd_ok" ELSE "cmd_err"
    /\ UNCHANGED <<fixed_vars, shared_vars, pc_acq, report_idx, curve, dev_pos,
                   read_errs, hid_channel_id, hid_data_bytes, hid_i, dual_mode,
                   ui_op, snap, hist_vars>>

\* the status written after send_cmd has returned
UiCmdStatus ==
    /\ pc_ui \in {"cmd_ok", "cmd_err"}
    /\ error_message' = IF pc_ui = "cmd_ok" THEN Some(<<"[ok] ", ui_op>>)
                        ELSE Some(<<"[x] Erreur cmd: ", "hid">>)
    /\ ui_op' = "none"
    /\ pc_ui' = "idle"
    /\ UNCHANGED <<fixed_vars, curve_data, running, data_lock, pc_acq, report_idx,
                   curve, hid_vars, dual_mode, snap, hist_vars>>

\* on_exit: *self.running.lock().unwrap() = false
OnExit ==
    /\ pc_ui = "idle"
    /\ running' = FALSE
    /\ pc_ui' = "exited"
    /\ UNCHANGED <<fixed_vars, curve_data, error_message, data_lock, pc_acq,
                   report_idx, curve, hid_vars, dual_mode, ui_op, snap, hist_vars>>

\* the steps of the acquisition thread
AcqNext ==
    \/ AcqStart \/ AcqLoadFails \/ AcqCheck \/ FileRead \/ FileErr \/ HidErr
    \/ AcqLockData \/ AcqStoreVoltage \/ AcqStoreRest \/ AcqClearStatus
    \/ AcqUnlockData \/ AcqSleep
    \/ HidLockDev \/ HidSeekRead \/ HidAccumRead \/ HidReadFail

\* the steps of the presentation thread
UiNext ==
    \/ UiToggleMode \/ UiDrawLock \/ UiExportLock \/ UiReadChannel0 \/ UiReadChannel1
    \/ UiExportOk \/ UiExportErr \/ UiUnlockData \/ OnExit
    \/ UiCmdClick \/ UiCmdLockDev \/ UiCmdWrite \/ UiCmdStatus

\* history: what the replay thread does once running is false
CountAfterStop ==
    after_stop' =
        IF use_file_mode /\ ~running
        THEN [pubs |-> after_stop.pubs + (IF pc_acq = "store_rest" THEN 1 ELSE 0),
              steps |-> after_stop.steps + 1]
        ELSE after_stop

Next ==
    \/ AcqNext /\ CountAfterStop /\ UNCHANGED fn_vars
    \/ UiNext /\ UNCHANGED after_stop /\ UNCHANGED fn_vars

Spec == Init /\ [][Next]_vars

(***************************************************************************)
(* The pure functions called on their own, on arguments drawn from bounded *)
(* sets: extract_payload on reports of every length up to MaxReportLen.    *)
(***************************************************************************)
MaxReportLen == 66

ReportInputs ==
    {[i \in 1..n |-> (7 * i + b) % 256] : n \in 0..MaxReportLen, b \in {0, 240}}

CallExtract ==
    /\ fn_name = "extract_payload"
    /\ fn_pc = "call"
    /\ fn_ret' = extract_payload(fn_arg)
    /\ fn_pc' = "ret"
    /\ UNCHANGED <<app_vars, fn_name, fn_arg, fn_prev>>

(***************************************************************************)
(* parse_and_normalize_curve_data on the bytes of up to MaxPairs pairs of  *)
(* raw values, and on the two byte sequences of the worked example; then   *)
(* once more on the same pairs with one column shifted by a constant that  *)
(* keeps every value a u16.                                                *)
(***************************************************************************)
MaxPairs == 2

RawValues == {0, 1, 3, 255}
Shifts == {1, 65280}
U16Max == 65535

\* the four bytes of a pair <<current_raw, voltage_raw>>, little endian
Quad(pair) == <<pair[1] % 256, pair[1] \div 256, pair[2] % 256, pair[2] \div 256>>

BytesOf(pairs) == [b \in 1..(4 * Len(pairs)) |-> Quad(pairs[(b + 3) \div 4])[((b - 1) % 4) + 1]]

\* the pairs a whole number of quads spells
PairsOf(bytes) ==
    [q \in 1..(Len(bytes) \div 4) |->
        <<bytes[4 * q - 3] + 256 * bytes[4 * q - 2], bytes[4 * q - 1] + 256 * bytes[4 * q]>>]

PairSeqs == UNION {[1..n -> RawValues \X RawValues] : n \in 1..MaxPairs}

\* [02,00,03,00] twice, then [04,00,01,00]
ExampleBytes == <<2, 0, 3, 0, 2, 0, 3, 0, 4, 0, 1, 0>>
\* current 2, 3, 4 against voltage 2, 3, 1
ExamplePairs == <<<<2, 2>>, <<3, 3>>, <<4, 1>>>>

\* a buffer of n bytes of unlike quads
LongBytes(n) ==
    [b \in 1..n |->
        LET q == (b + 3) \div 4
        IN  CASE b % 4 = 1 -> (q * q) % 251
              [] b % 4 = 2 -> 0
              [] b % 4 = 3 -> (3 * q) % 256
              [] OTHER     -> q % 2]

\* buffers of fewer than four bytes, buffers that end in a partial quad,
\* and buffers of POINTS_PER_CURVE quads and more
OddInputs ==
    {LongBytes(n) : n \in 0..7}
        \cup {LongBytes(4 * POINTS_PER_CURVE + n) : n \in {0, 1, 4, 7}}

NormalizeInputs ==
    {BytesOf(ps) : ps \in PairSeqs} \cup {ExampleBytes, BytesOf(ExamplePairs)}
        \cup OddInputs

ShiftPairs(pairs, k, column) ==
    [q \in 1..Len(pairs) |->
        IF column = 1 THEN <<pairs[q][1] + k, pairs[q][2]>>
                      ELSE <<pairs[q][1], pairs[q][2] + k>>]

CallNormalize ==
    /\ fn_name = "parse_and_normalize_curve_data"
    /\ fn_pc \in {"call", "call2", "call_tail"}
    /\ fn_ret' = parse_and_normalize_curve_data(fn_arg)
    /\ fn_pc' = CASE fn_pc = "call" -> "ret"
                  [] fn_pc = "call2" -> "ret2"
                  [] OTHER -> "ret_tail"
    /\ UNCHANGED <<app_vars, fn_name, fn_arg, fn_prev>>

\* the bytes of the quads the loop reads: POINTS_PER_CURVE whole quads at most
UsedLen(len) == 4 * Min(POINTS_PER_CURVE, len \div 4)

\* the function is called again on the same buffer with the bytes after the
\* quads it reads changed, or cut off
CallTailChanged ==
    /\ fn_name = "parse_and_normalize_curve_data"
    /\ fn_pc = "ret"
    /\ Len(fn_arg) > UsedLen(Len(fn_arg))
    /\ \/ fn_arg' = [b \in 1..Len(fn_arg) |->
                        IF b <= UsedLen(Len(fn_arg)) THEN fn_arg[b] ELSE 255 - fn_arg[b]]
       \/ fn_arg' = SubSeq(fn_arg, 1, UsedLen(Len(fn_arg)))
    /\ fn_prev' = Some([arg |-> fn_arg, ret |-> fn_ret])
    /\ fn_pc' = "call_tail"
    /\ UNCHANGED <<app_vars, fn_name, fn_ret>>

CallShifted ==
    /\ fn_name = "parse_and_normalize_curve_data"
    /\ fn_pc = "ret"
    /\ fn_ret.ok
    /\ \E k \in Shifts, column \in {1, 2} :
          LET pairs == PairsOf(fn_arg)
          IN  /\ \A q \in 1..Len(pairs) : pairs[q][column] + k <= U16Max
              /\ fn_arg' = BytesOf(ShiftPairs(pairs, k, column))
    /\ fn_prev' = Some([arg |-> fn_arg, ret |-> fn_ret])
    /\ fn_pc' = "call2"
    /\ UNCHANGED <<app_vars, fn_name, fn_ret>>

(***************************************************************************)
(* HidBackend::send_cmd on every kind of command, the write succeeding or  *)
(* failing.                                                                *)
(***************************************************************************)
CommandKinds == {"SetFreq", "SetRes", "SetMode", "SetVolt"}
CommandIndexes == {0, 1, 2, 7, 255}

\* a variant match in which SetVolt shares the prefix of SetFreq
PrefixOfVoltAsFreq(kind) ==
    CASE kind = "SetFreq" -> 252
      [] kind = "SetRes"  -> 251
      [] kind = "SetMode" -> 250
      [] kind = "SetVolt" -> 252

\* the prefix of the match on cmd: 0xFC, 0xFB, 0xFA, 0xFD
PrefixOf(kind) ==
    CASE kind = "SetFreq" -> 252
      [] kind = "SetRes"  -> 251
      [] kind = "SetMode" -> 250
      [] kind = "SetVolt" -> 253

\* send_cmd: the calls of device.write it makes, and what it returns
send_cmd(kind, index, write_ok) ==
    LET buf == [b \in 1..READ_SIZE |->
                   IF b = 2 THEN PrefixOf(kind) ELSE IF b = 3 THEN index ELSE 0]
    IN  [writes |-> <<Vec(buf)>>,
         res |-> IF write_ok THEN Ok(<<>>) ELSE Err("hid")]

CallSendCmd ==
    /\ fn_name = "send_cmd"
    /\ fn_pc = "call"
    /\ \E write_ok \in BOOLEAN :
          fn_ret' = [write_ok |-> write_ok,
                     out |-> send_cmd(fn_arg[1], fn_arg[2], write_ok)]
    /\ fn_pc' = "ret"
    /\ UNCHANGED <<app_vars, fn_name, fn_arg, fn_prev>>

\* the copy of main.rs is called on the buffer the copy of curve.rs was
\* called on
CallMainNormalize ==
    /\ fn_name = "parse_and_normalize_curve_data"
    /\ fn_pc = "ret"
    /\ fn_prev' = Some([arg |-> fn_arg, ret |-> fn_ret])
    /\ fn_ret' = main_parse_and_normalize_curve_data(fn_arg)
    /\ fn_pc' = "ret_main"
    /\ UNCHANGED <<app_vars, fn_name, fn_arg>>

(***************************************************************************)
(* read_one_curve_from_reports on every capture, from every cursor value   *)
(* 0..reports.len().                                                       *)
(***************************************************************************)
\* the indices reports[..] is read at by the data loop (backend.rs 229-235);
\* the loop returns at the first report that has no payload
RECURSIVE BodyIndices(_, _, _)
BodyIndices(reports, base, i) ==
    IF i = REPORTS_PER_CURVE THEN {}
    ELSE {base + i} \cup
         (IF base + i < Len(reports) /\ IsSome(extract_payload(reports[base + i + 1]))
          THEN BodyIndices(reports, base, i + 1) ELSE {})

\* the indices reports[..] is read at by one call (backend.rs 206-235)
IndicesRead(reports, start_idx) ==
    LET h == SeekHeader(reports, start_idx)
    IN  (start_idx..(h[3] - 1)) \cup
        (IF h[1] /\ ~NotEnoughLeft(h[3], Len(reports))
         THEN BodyIndices(reports, h[3], 0) ELSE {})

\* the capture and the cursor of a call
ReadInputs ==
    UNION {{<<c, start>> : start \in 0..Len(Captures[c])} : c \in 1..NumCaptures}

CallReadFromReports ==
    /\ fn_name = "read_one_curve_from_reports"
    /\ fn_pc = "call"
    /\ fn_ret' = read_one_curve_from_reports(Captures[fn_arg[1]], fn_arg[2])
    /\ fn_pc' = "ret"
    /\ UNCHANGED <<app_vars, fn_name, fn_arg, fn_prev>>

PureInit ==
    /\ AppInit
    /\ spawned = {}
    /\ \/ fn_name = "extract_payload" /\ fn_arg \in ReportInputs
       \/ fn_name = "parse_and_normalize_curve_data" /\ fn_arg \in NormalizeInputs
       \/ fn_name = "send_cmd" /\ fn_arg \in CommandKinds \X CommandIndexes
       \/ fn_name = "read_one_curve_from_reports" /\ fn_arg \in ReadInputs
    /\ fn_ret = None
    /\ fn_prev = None
    /\ fn_pc = "call"

PureNext ==
    \/ CallExtract
    \/ CallNormalize
    \/ CallShifted
    \/ CallTailChanged
    \/ CallSendCmd
    \/ CallReadFromReports
    \/ CallMainNormalize

PureSpec == PureInit /\ [][PureNext]_vars

(***************************************************************************)
(* What the properties below speak of, stated on the reports themselves.   *)
(***************************************************************************)
\* a report of one of the two accepted lengths, and its 64-byte payload
Extractable(r) == Len(r) = READ_SIZE \/ Len(r) = REPORT_DATA_SIZE
PayloadOf(r) == IF Len(r) = READ_SIZE THEN SubSeq(r, 2, Len(r)) ELSE r

\* the payload of r begins with F0 FF
BeginsWithMagic(r) ==
    Extractable(r) /\ PayloadOf(r)[1] = 240 /\ PayloadOf(r)[2] = 255

\* the 1-based positions of the headers of the run's reports; position i is
\* cursor value i - 1, and the cursor just after that header is i
Headers == {i \in 1..Len(Reports) : BeginsWithMagic(Reports[i])}
HeadersFrom(cursor) == {i \in Headers : i > cursor}
First(S) == CHOOSE m \in S : \A n \in S : m <= n

\* the reports hold exactly one header and REPORTS_PER_CURVE extractable
\* reports right after it
OneFrame ==
    /\ Cardinality(Headers) = 1
    /\ LET h == First(Headers)
       IN  /\ h + REPORTS_PER_CURVE <= Len(Reports)
           /\ \A k \in 1..REPORTS_PER_CURVE : Extractable(Reports[h + k])

\* the thread positions at which a mutex guard on curve_data is held
AcqHoldsData == pc_acq \in {"store_voltage", "store_rest", "clear_status", "unlock_data"}
UiHoldsData == pc_ui \in {"read_channel0", "read_channel1", "export_status", "drawn"}

\* the slots the presentation thread has read since it took the lock
UiHasRead(slot) ==
    IF slot = "channel0"
    THEN dual_mode /\ pc_ui \in {"read_channel1", "export_status", "drawn"}
    ELSE pc_ui \in {"export_status", "drawn"}

\* the replay thread has just returned from read_one_curve_from_reports
AfterFileRead == use_file_mode /\ pc_acq \in {"lock_data", "err"}

(***************************************************************************)
(* C1: the two slots are guarded by one mutex, so the presentation thread  *)
(* and the acquisition thread never hold curve_data together, and what the *)
(* presentation thread has read of the slots is what the slots hold now    *)
(* (one instant for both) and each curve in it is one a read returned      *)
(* whole, never a half-written one.                                        *)
(***************************************************************************)
C1_SnapshotConsistent ==
    /\ ~(AcqHoldsData /\ UiHoldsData)
    /\ \A slot \in {"channel0", "channel1"} :
          UiHasRead(slot) =>
              /\ snap[slot] = curve_data[slot]
              /\ IsSome(snap[slot]) => Unwrap(snap[slot]) \in published

\* the presentation thread holds a snapshot of two curves while the
\* acquisition thread waits for the lock with a third
C1_Witness ==
    /\ pc_ui = "drawn"
    /\ dual_mode
    /\ IsSome(snap.channel0)
    /\ IsSome(snap.channel1)
    /\ pc_acq = "lock_data"

(***************************************************************************)
(* C2: publishing a curve whose channel is 0 leaves slot channel1 as it    *)
(* was, and publishing any other curve leaves slot channel0 as it was, in  *)
(* live and in replay mode.                                                *)
(***************************************************************************)
C2_OtherSlotUnchanged ==
    [][(pc_acq \in {"store_voltage", "store_rest"}) =>
          IF curve.val.channel = 0
          THEN curve_data'.channel1 = curve_data.channel1
          ELSE curve_data'.channel0 = curve_data.channel0]_vars

\* a channel-0 curve has been stored while slot channel1 held a curve
C2_Witness ==
    /\ pc_acq = "clear_status"
    /\ curve.val.channel = 0
    /\ IsSome(curve_data.channel1)
    /\ curve_data.channel0 = Some(curve.val)

(***************************************************************************)
(* C3: whenever the acquisition thread is not in the middle of publishing, *)
(* each slot holds exactly the curve of the last successful read for that  *)
(* slot (nothing if there was none): the last write wins, nothing of an    *)
(* earlier curve remains.                                                  *)
(***************************************************************************)
C3_LastWriteWins ==
    pc_acq \notin {"lock_data", "store_voltage", "store_rest"} =>
        /\ curve_data.channel0 = last_ok[0]
        /\ curve_data.channel1 = last_ok[1]

\* slot channel1 has been overwritten by a different curve
C3_Witness ==
    /\ pc_acq = "sleep"
    /\ IsSome(curve_data.channel1)
    /\ \E c \in published : c.channel # 0 /\ Some(c) # curve_data.channel1

(***************************************************************************)
(* C4: in replay mode, on reports that hold exactly one header followed by *)
(* 32 extractable reports, the call from cursor 0 returns a curve whose    *)
(* channel is the third byte of the header payload, decoded from a raw     *)
(* buffer of 32 * 64 = 2048 bytes, and leaves the cursor right after the   *)
(* frame; the next call of the same pass returns no frame.                 *)
(***************************************************************************)
C4_SingleFrame ==
    AfterFileRead /\ OneFrame =>
        LET h == First(Headers)
        IN  IF read_from = 0
            THEN /\ curve.ok
                 /\ curve.val.channel = PayloadOf(Reports[h])[3]
                 /\ Len(Unwrap(Accumulate(Reports, h, 0, <<>>)))
                        = REPORTS_PER_CURVE * REPORT_DATA_SIZE
                 /\ Len(curve.val.voltage) = POINTS_PER_CURVE
                 /\ Len(curve.val.current) = POINTS_PER_CURVE
                 /\ report_idx = h + REPORTS_PER_CURVE
            ELSE /\ ~curve.ok
                 /\ curve.err = NoHeader
                 /\ read_from = h + REPORTS_PER_CURVE

\* the second call of a pass over a one-frame capture has returned
C4_Witness ==
    /\ AfterFileRead
    /\ OneFrame
    /\ read_from > 0
    /\ IsSome(last_ok[0])

(***************************************************************************)
(* C5 (as the code has it): a report whose length is neither 64 nor 65 is  *)
(* skipped without effect only while the header is awaited.  While the 32  *)
(* payloads are accumulated it aborts the frame: the read returns the      *)
(* error "Payload invalide" in both drivers (the live driver has consumed  *)
(* the report, the replay cursor stays just after the header).             *)
(***************************************************************************)
WrongLengthRead ==
    /\ ~use_file_mode
    /\ dev_pos' = dev_pos + 1
    /\ ~Extractable(Reports[dev_pos + 1])

C6_CursorAfterHeader ==
    AfterFileRead =>
        LET hs == HeadersFrom(read_from)
            incomplete == hs # {} /\ First(hs) + REPORTS_PER_CURVE > Len(Reports)
            not_enough == ~curve.ok /\ curve.err = NotEnough
        IN  /\ incomplete <=> not_enough
            /\ not_enough => /\ report_idx = First(hs)
                             /\ report_idx <= Len(Reports)

\* the incomplete-frame error with reports left after the cursor
C6_Witness ==
    /\ AfterFileRead
    /\ ~curve.ok
    /\ curve.err = NotEnough
    /\ report_idx < Len(Reports)

\* C6 as stated: the incomplete-frame error leaves the cursor at the end
\* of the stream
C6_CursorAtEnd ==
    AfterFileRead /\ ~curve.ok /\ curve.err = NotEnough
        => report_idx = Len(Reports)

(***************************************************************************)
(* C7: in replay mode the next iteration starts from cursor 0 after a      *)
(* failed iteration, and from the report right after the consumed frame    *)
(* (never from 0) after a successful one.                                  *)
(***************************************************************************)
C7_CursorAtNextIteration ==
    use_file_mode /\ pc_acq \in {"sleep", "check", "read"} /\ last_iter # "none" =>
        IF last_iter = "err"
        THEN report_idx = 0
        ELSE /\ report_idx = First(HeadersFrom(read_from)) + REPORTS_PER_CURVE
             /\ report_idx > 0

\* an iteration that started past the beginning failed, and the next one
\* is about to read from 0
C7_Witness ==
    /\ use_file_mode
    /\ pc_acq = "read"
    /\ last_iter = "err"
    /\ read_from > 0
    /\ report_idx = 0

(***************************************************************************)
(* C8: the slots change only in the two writes of an iteration whose read  *)
(* succeeded; a failed iteration leaves both slots as they were and writes *)
(* "Erreur: <e>" to the status sink, in both loops.                        *)
(***************************************************************************)
C8_FailureKeepsSlots ==
    [][/\ curve_data' # curve_data =>
              last_iter = "ok" /\ pc_acq \in {"store_voltage", "store_rest"}
       /\ pc_acq = "err" \/ pc_acq' = "err" => curve_data' = curve_data
       /\ pc_acq = "err" /\ pc_acq' # "err" =>
              error_message' = Some(<<"Erreur: ", curve.err>>)]_vars

\* a failed iteration has ended with a curve still in slot channel1
C8_Witness ==
    /\ pc_acq = "sleep"
    /\ last_iter = "err"
    /\ IsSome(curve_data.channel1)
    /\ error_message = Some(<<"Erreur: ", NotEnough>>)

(***************************************************************************)
(* C9: no failed read makes an acquisition loop exit: from the Err arm the *)
(* thread can always step, it goes to the sleep and then to the loop test, *)
(* the test starts another iteration while running is true, and the loop   *)
(* is left only from the test, with running false.                         *)
(***************************************************************************)
C9_ErrorsDoNotExit ==
    /\ [](pc_acq \in {"err", "sleep", "check"} =>
             ENABLED (FileErr \/ HidErr \/ AcqSleep \/ AcqCheck))
    /\ [][/\ pc_acq' = "done" /\ pc_acq # "done" => pc_acq = "check" /\ ~running
          /\ pc_acq = "err" => pc_acq' \in {"err", "sleep"}
          /\ pc_acq = "sleep" => pc_acq' \in {"sleep", "check"}
          /\ pc_acq = "check" /\ running =>
                 pc_acq' \in {"check", "read", "lock_dev"}]_vars

\* another iteration is under way after a failed one
C9_Witness ==
    /\ running
    /\ last_iter = "err"
    /\ pc_acq \in {"read", "seek"}

(***************************************************************************)
(* C10: in replay mode, once running is false the thread never waits for   *)
(* the curve_data lock (its only step that can wait), takes at most the    *)
(* eight steps that finish the iteration in progress and test the flag,    *)
(* publishes at most one more curve, and ends at the Ok(()) of             *)
(* run_file_reader.                                                        *)
(***************************************************************************)
C10_ReplayStops ==
    use_file_mode /\ ~running =>
        /\ after_stop.pubs <= 1
        /\ after_stop.steps <= 8
        /\ pc_acq = "lock_data" => ENABLED AcqLockData
        /\ after_stop.steps = 8 => pc_acq = "done"

\* the replay thread has returned after publishing one curve past the stop
C10_Witness ==
    /\ use_file_mode
    /\ ~running
    /\ pc_acq = "done"
    /\ after_stop.pubs = 1

(***************************************************************************)
(* C11: in live mode the acquisition thread does not look at running while *)
(* it acquires a frame: from the header wait or the data loop it never     *)
(* goes to the loop test or to the exit, it leaves the header wait only by *)
(* reading a header or by a failed read, and when the device has no report *)
(* to deliver its reads cannot step, running false or not.                 *)
(***************************************************************************)
C11_LiveStopOnlyBetweenFrames ==
    /\ [](~use_file_mode /\ pc_acq \in {"seek", "accum"} /\ ~DeviceHasReport =>
             ~ENABLED (HidSeekRead \/ HidAccumRead))
    /\ [][/\ (pc_acq \in {"seek", "accum"}) =>
                 pc_acq' \in {"seek", "accum", "lock_data", "err"}
          /\ pc_acq = "seek" /\ pc_acq' # "seek" =>
                 \/ /\ dev_pos' = dev_pos + 1
                    /\ BeginsWithMagic(Reports[dev_pos + 1])
                    /\ pc_acq' = "accum"
                 \/ /\ read_errs' = read_errs + 1
                    /\ pc_acq' = "err"]_vars

\* the device has delivered only reports that are no header and has
\* stalled; running is false and the thread still waits for a header
C11_Witness ==
    /\ ~use_file_mode
    /\ ~running
    /\ pc_acq = "seek"
    /\ Headers = {}
    /\ dev_pos = Len(Reports)
    /\ dev_pos > 0

(***************************************************************************)
(* C12: the live thread holds the device mutex from the first read of the  *)
(* header wait to the end of the frame acquisition, and send_cmd writes    *)
(* only with that mutex held; so a command is never written while a frame  *)
(* is being acquired, and while one is, the presentation thread that has   *)
(* entered send_cmd has no step it can take.                               *)
(***************************************************************************)
C12_CommandWaitsForFrame ==
    /\ pc_acq \in {"seek", "accum"} => device_lock = "acq"
    /\ pc_ui = "cmd_write" => device_lock = "ui" /\ pc_acq \notin {"seek", "accum"}
    /\ pc_ui = "cmd_lock" /\ pc_acq \in {"seek", "accum"} => ~ENABLED UiNext

\* a command waits behind a frame acquisition that the stalled device
\* will never let end
C12_Witness ==
    /\ pc_ui = "cmd_lock"
    /\ pc_acq = "accum"
    /\ ~DeviceHasReport
    /\ device_lock = "acq"

(***************************************************************************)
(* The first replay pass over a report sequence: the calls run_file_reader *)
(* makes from cursor 0 until the first one that fails (backend.rs          *)
(* 143-159), tabulated per capture.                                        *)
(***************************************************************************)
RECURSIVE ReplayPass(_, _, _)
ReplayPass(reports, idx, calls) ==
    LET out == read_one_curve_from_reports(reports, idx)
    IN  IF out.res.ok THEN ReplayPass(reports, out.start_idx, Append(calls, out))
        ELSE Append(calls, out)

FirstPass == Vec([c \in 1..NumCaptures |-> ReplayPass(Captures[c], 0, <<>>)])

\* the outcome of a call of the pass, as the history records it
OutcomeOf(out) ==
    IF out.res.ok
    THEN Outcome(TRUE, out.res.val.channel, out.start_idx - REPORTS_PER_CURVE)
    ELSE Outcome(FALSE, 0 - 1, IF out.res.err = NoHeader THEN 0 ELSE out.start_idx)

(***************************************************************************)
(* C13 as stated: on the same reports the live driver and the first replay *)
(* pass publish the same curves to the same slots in the same order and    *)
(* fail on the same frames: as long as no device read fails, what the live *)
(* driver has returned so far is the beginning of what the first replay    *)
(* pass returns.                                                           *)
(***************************************************************************)
C13_ReplayMatchesLive ==
    ~use_file_mode /\ read_errs = 0 =>
        LET pass == FirstPass[cap]
            n == Len(outcomes)
        IN  /\ n <= Len(pass)
            /\ \A k \in 1..n : outcomes[k] = OutcomeOf(pass[k])
            /\ pc_acq = "lock_data" => curve = pass[n].res

(***************************************************************************)
(* C14 as stated: whatever channel byte the headers carry, every curve a   *)
(* slot holds (outside the two writes of a store) has channel id 0 or 1,   *)
(* slot channel0 holds only channel id 0 and slot channel1 only channel    *)
(* id 1.                                                                   *)
(***************************************************************************)
C14_ChannelIdZeroOrOne ==
    pc_acq # "store_rest" =>
        /\ IsSome(curve_data.channel0) => Unwrap(curve_data.channel0).channel = 0
        /\ IsSome(curve_data.channel1) => Unwrap(curve_data.channel1).channel = 1

(***************************************************************************)
(* C15: extract_payload returns the 64 bytes after the first for a report  *)
(* of 65 bytes, the report itself for a report of 64 bytes, and nothing    *)
(* for any other length, 0 included; what it returns has 64 bytes.         *)
(***************************************************************************)
C15_ExtractPayload ==
    fn_name = "extract_payload" /\ fn_pc = "ret" =>
        /\ Len(fn_arg) = 65 => fn_ret = Some([i \in 1..64 |-> fn_arg[i + 1]])
        /\ Len(fn_arg) = 64 => fn_ret = Some(fn_arg)
        /\ Len(fn_arg) \notin {64, 65} => fn_ret = None
        /\ IsSome(fn_ret) => Len(Unwrap(fn_ret)) = 64

\* a 65-byte report has been stripped of its first byte
C15_Witness ==
    /\ fn_name = "extract_payload"
    /\ fn_pc = "ret"
    /\ Len(fn_arg) = 65
    /\ IsSome(fn_ret)
    /\ Unwrap(fn_ret)[1] = fn_arg[2]

(***************************************************************************)
(* C16: when a line of the capture file has an odd number of hex digits,   *)
(* or a token that is no hex, the load fails: run_file_reader returns Err  *)
(* before it enters its loop, the acquisition never starts and no curve is *)
(* ever published.                                                         *)
(***************************************************************************)
C16_OddLineFailsLoad ==
    use_file_mode /\ Reports = CapOdd =>
        /\ pc_acq \in {"start", "load_err"}
        /\ published = {}
        /\ curve_data = NewDualCurveData

\* one column of the second argument is the first argument's plus a constant
IsShift(before, after) ==
    /\ Len(before) = Len(after)
    /\ Len(before) > 0
    /\ \E column \in {1, 2} :
          LET k == after[1][column] - before[1][column]
          IN  /\ k > 0
              /\ \A q \in 1..Len(before) :
                    /\ after[q][column] = before[q][column] + k
                    /\ after[q][3 - column] = before[q][3 - column]

(***************************************************************************)
(* C17: adding one constant to every current_raw, or to every voltage_raw, *)
(* such that every value still fits 16 bits, leaves both normalized        *)
(* sequences as they were.                                                 *)
(***************************************************************************)
C17_OffsetInvariant ==
    fn_name = "parse_and_normalize_curve_data" /\ fn_pc = "ret2" =>
        /\ IsShift(PairsOf(Unwrap(fn_prev).arg), PairsOf(fn_arg))
        /\ fn_ret.ok
        /\ Unwrap(fn_prev).ret.ok
        /\ fn_ret.val = Unwrap(fn_prev).ret.val

\* two unlike pairs, the shift carrying into the high byte, a result that
\* is not all zeros
C17_Witness ==
    /\ fn_name = "parse_and_normalize_curve_data"
    /\ fn_pc = "ret2"
    /\ Len(PairsOf(fn_arg)) = 2
    /\ PairsOf(Unwrap(fn_prev).arg)[1][1] = 255
    /\ PairsOf(fn_arg)[1][1] = 256
    /\ fn_ret.ok
    /\ \E q \in 1..2 : fn_ret.val[2][q] # F32Zero

\* every current_raw is the same and every voltage_raw is the same
AllEqual(pairs) == Len(pairs) > 0 /\ \A q \in 1..Len(pairs) : pairs[q] = pairs[1]

(***************************************************************************)
(* C18: on an input whose current_raw are all the same and whose           *)
(* voltage_raw are all the same, the normalizer divides by a scale of 1.0, *)
(* not by zero: it returns Ok with one value per pair in either sequence,  *)
(* and every value is zero.                                                *)
(***************************************************************************)
C18_AllEqualGivesZeros ==
    /\ fn_name = "parse_and_normalize_curve_data"
    /\ fn_pc \in {"ret", "ret2"}
    /\ AllEqual(PairsOf(fn_arg))
    =>
    LET n == Len(PairsOf(fn_arg))
        zeros == [q \in 1..n |-> 0]
    IN  /\ Scale(zeros, zeros) = 1
        /\ fn_ret.ok
        /\ Len(fn_ret.val[1]) = n
        /\ Len(fn_ret.val[2]) = n
        /\ \A q \in 1..n : fn_ret.val[1][q] = F32Zero /\ fn_ret.val[2][q] = F32Zero

\* two equal pairs of nonzero raw values have been normalized
C18_Witness ==
    /\ fn_name = "parse_and_normalize_curve_data"
    /\ fn_pc = "ret"
    /\ PairsOf(fn_arg) = <<<<255, 3>>, <<255, 3>>>>
    /\ fn_ret.ok
    /\ fn_ret.val = <<<<F32Zero, F32Zero>>, <<F32Zero, F32Zero>>>>

\* the raw columns of an argument, in the order given
Column(bytes, column) == [q \in 1..Len(PairsOf(bytes)) |-> PairsOf(bytes)[q][column]]

\* the centred column: raw value minus the median the code takes
Centred(bytes, column) ==
    LET col == Column(bytes, column)
    IN  [q \in 1..Len(col) |-> col[q] - SortedAt(col, Len(col) \div 2)]

(***************************************************************************)
(* C19 as stated: the bytes [02,00,03,00] twice then [04,00,01,00] decode  *)
(* to current 2, 3, 4 and voltage 2, 3, 1, with medians 3 and 2 and scale  *)
(* 1, and give voltage 0, 1, -1 and current -1, 0, 1.                      *)
(***************************************************************************)
C19_ExampleAsStated ==
    fn_name = "parse_and_normalize_curve_data" /\ fn_pc = "ret" /\ fn_arg = ExampleBytes =>
        /\ Column(fn_arg, 1) = <<2, 3, 4>>
        /\ Column(fn_arg, 2) = <<2, 3, 1>>
        /\ SortedAt(Column(fn_arg, 1), 1) = 3
        /\ SortedAt(Column(fn_arg, 2), 1) = 2
        /\ Scale(Centred(fn_arg, 1), Centred(fn_arg, 2)) = 1
        /\ fn_ret.ok
        /\ fn_ret.val = <<<<F32Zero, F32One, 0 - F32One>>, <<0 - F32One, F32Zero, F32One>>>>

(***************************************************************************)
(* C19: the bytes [02,00,03,00] twice then [04,00,01,00] decode to current *)
(* 2, 2, 4 and voltage 3, 3, 1, with medians 2 and 3 and scale 2, and give *)
(* voltage 0, 0, -1 and current 0, 0, 1.  The values current 2, 3, 4,      *)
(* voltage 2, 3, 1, medians 3 and 2, scale 1, voltage 0, 1, -1 and current *)
(* -1, 0, 1 are those of the quads [02,00,02,00], [03,00,03,00],           *)
(* [04,00,01,00].                                                          *)
(***************************************************************************)
C19_Example ==
    fn_name = "parse_and_normalize_curve_data" /\ fn_pc = "ret" =>
        /\ fn_arg = ExampleBytes =>
              /\ Column(fn_arg, 1) = <<2, 2, 4>>
              /\ Column(fn_arg, 2) = <<3, 3, 1>>
              /\ SortedAt(Column(fn_arg, 1), 1) = 2
              /\ SortedAt(Column(fn_arg, 2), 1) = 3
              /\ Scale(Centred(fn_arg, 1), Centred(fn_arg, 2)) = 2
              /\ fn_ret.ok
              /\ fn_ret.val = <<<<F32Zero, F32Zero, 0 - F32One>>,
                                <<F32Zero, F32Zero, F32One>>>>
        /\ fn_arg = <<2, 0, 2, 0, 3, 0, 3, 0, 4, 0, 1, 0>> =>
              /\ Column(fn_arg, 1) = <<2, 3, 4>>
              /\ Column(fn_arg, 2) = <<2, 3, 1>>
              /\ SortedAt(Column(fn_arg, 1), 1) = 3
              /\ SortedAt(Column(fn_arg, 2), 1) = 2
              /\ Scale(Centred(fn_arg, 1), Centred(fn_arg, 2)) = 1
              /\ fn_ret.ok
              /\ fn_ret.val = <<<<F32Zero, F32One, 0 - F32One>>,
                                <<0 - F32One, F32Zero, F32One>>>>

\* the stated bytes have been normalized
C19_Witness ==
    /\ fn_name = "parse_and_normalize_curve_data"
    /\ fn_pc = "ret"
    /\ fn_arg = ExampleBytes
    /\ fn_ret.ok
    /\ fn_ret.val[2][3] = F32One

(***************************************************************************)
(* C20 as stated: exactly one acquisition thread is started in every run.  *)
(***************************************************************************)
C20_ExactlyOneThread == Cardinality(spawned) = 1

(***************************************************************************)
(* C20: at most one acquisition thread is started per application run,     *)
(* never both: the replay thread when file mode is selected; in live mode  *)
(* the live thread when the device opens, and none when it does not, the   *)
(* status then telling the USB error.  The slots are written by that       *)
(* thread only, so the shared curve state has at most one writer.          *)
(***************************************************************************)
C20_AtMostOneThread ==
    /\ [](/\ Cardinality(spawned) <= 1
          /\ use_file_mode => spawned = {"replay"}
          /\ ~use_file_mode /\ IsSome(hid_backend) => spawned = {"live"}
          /\ ~use_file_mode /\ ~IsSome(hid_backend) =>
                 /\ spawned = {}
                 /\ pc_acq = "not_started"
                 /\ curve_data = NewDualCurveData)
    /\ [][curve_data' # curve_data =>
              /\ Cardinality(spawned) = 1
              /\ pc_acq \in {"store_voltage", "store_rest"}
              /\ pc_acq' # pc_acq
              /\ pc_ui' = pc_ui]_vars

\* the one thread of a live run has written a slot while the device was
\* open
C20_Witness ==
    /\ spawned = {"live"}
    /\ IsSome(hid_backend)
    /\ IsSome(curve_data.channel0)


\* a live run whose device could not be opened
NoDevice == ~use_file_mode /\ ~IsSome(hid_backend)

(***************************************************************************)
(* C21: in live mode, when the device cannot be opened, the application    *)
(* goes on: no acquisition thread is started, the status sink holds the    *)
(* USB error text (until an export writes its own result there), no        *)
(* command is ever sent, and both slots stay empty for the rest of the     *)
(* run; the presentation thread keeps drawing until it exits.              *)
(***************************************************************************)
C21_NoDeviceNoCrash ==
    /\ NoDevice => error_message = Some(ErreurUsb)
    /\ [](NoDevice =>
             /\ spawned = {}
             /\ pc_acq = "not_started"
             /\ ~ENABLED AcqNext
             /\ curve_data = NewDualCurveData
             /\ pc_ui \notin {"cmd_lock", "cmd_write", "cmd_ok", "cmd_err"}
             /\ device_lock = "free"
             /\ pc_ui = "idle" => ENABLED UiDrawLock /\ ENABLED OnExit)
    /\ [][NoDevice /\ error_message' # error_message =>
              pc_ui = "export_status" /\ ui_op = "export"]_vars

\* with no device, the presentation thread has drawn: it found both slots
\* empty and the USB error in the status
C21_Witness ==
    /\ NoDevice
    /\ pc_ui = "drawn"
    /\ ui_op = "draw"
    /\ dual_mode
    /\ snap = NoSnap
    /\ error_message = Some(ErreurUsb)


\* the payloads of the REPORTS_PER_CURVE reports after position h, end to end
PayloadsAfter(h) ==
    Vec([b \in 1..(REPORTS_PER_CURVE * REPORT_DATA_SIZE) |->
            PayloadOf(Reports[h + ((b - 1) \div REPORT_DATA_SIZE) + 1])
                [((b - 1) % REPORT_DATA_SIZE) + 1]])

\* the curve a frame with its header at position h decodes to
CurveOfFrame(h) ==
    LET norm == Normalized(PayloadsAfter(h))
    IN  CurveData(norm.val[1], norm.val[2], PayloadOf(Reports[h])[3])

(***************************************************************************)
(* C22: while a header is awaited, a payload is taken as the header        *)
(* exactly when it begins with F0 FF; the header payload gives no byte to  *)
(* the frame; the buffer that is decoded is the 64-byte payloads of the 32 *)
(* reports after the header, whole and in stream order; a payload that     *)
(* begins with F0 FF among those 32 is appended like any other and does    *)
(* not start the frame anew.  In the live and in the replay driver.        *)
(***************************************************************************)
C22_FrameIsNextPayloads ==
    /\ [](/\ pc_acq \in {"lock_dev", "seek"} => hid_data_bytes = <<>> /\ hid_i = 0
          /\ pc_acq = "accum" =>
                 /\ Len(hid_data_bytes) = hid_i * REPORT_DATA_SIZE
                 /\ hid_i < REPORTS_PER_CURVE
                 /\ BeginsWithMagic(Reports[dev_pos - hid_i])
                 /\ hid_channel_id = PayloadOf(Reports[dev_pos - hid_i])[3]
          /\ AfterFileRead /\ curve.ok =>
                 LET h == First(HeadersFrom(read_from))
                 IN  /\ report_idx = h + REPORTS_PER_CURVE
                     /\ curve.val = CurveOfFrame(h))
    /\ [][/\ pc_acq = "seek" /\ dev_pos' # dev_pos =>
                 /\ dev_pos' = dev_pos + 1
                 /\ pc_acq' = IF BeginsWithMagic(Reports[dev_pos + 1])
                              THEN "accum" ELSE "seek"
                 /\ hid_data_bytes' = <<>>
          /\ pc_acq = "accum" /\ dev_pos' # dev_pos /\ Extractable(Reports[dev_pos + 1]) =>
                 IF hid_i + 1 < REPORTS_PER_CURVE
                 THEN /\ pc_acq' = "accum"
                      /\ hid_i' = hid_i + 1
                      /\ hid_channel_id' = hid_channel_id
                      /\ hid_data_bytes' =
                             hid_data_bytes \o PayloadOf(Reports[dev_pos + 1])
                 ELSE /\ pc_acq' = "lock_data"
                      /\ curve'.ok
                      /\ curve'.val = CurveOfFrame(dev_pos + 1 - REPORTS_PER_CURVE)]_vars

\* the live driver has emitted a frame whose third data payload begins with
\* the magic
C22_Witness ==
    /\ ~use_file_mode
    /\ pc_acq = "lock_data"
    /\ dev_pos = REPORTS_PER_CURVE + 1
    /\ BeginsWithMagic(Reports[1])
    /\ BeginsWithMagic(Reports[4])
    /\ read_errs = 0
    /\ curve.ok
    /\ curve.val = CurveOfFrame(1)


\* the values of a column in ascending order
Ascending(col) ==
    CHOOSE t \in [1..Len(col) -> {col[q] : q \in 1..Len(col)}] :
        /\ \A q \in 1..(Len(col) - 1) : t[q] <= t[q + 1]
        /\ \A v \in {col[q] : q \in 1..Len(col)} :
              Cardinality({q \in 1..Len(col) : t[q] = v})
                  = Cardinality({q \in 1..Len(col) : col[q] = v})

\* what centring on the medians mi, mv and scaling gives: (voltage, current)
NormalizedAbout(bytes, mi, mv) ==
    LET n == Len(PairsOf(bytes))
        i_vec == [q \in 1..n |-> Column(bytes, 1)[q] - mi]
        v_vec == [q \in 1..n |-> Column(bytes, 2)[q] - mv]
    IN  <<Vec([q \in 1..n |-> F32Div(v_vec[q], Scale(i_vec, v_vec))]),
          Vec([q \in 1..n |-> F32Div(i_vec[q], Scale(i_vec, v_vec))])>>

\* a whole number of quads has been normalized
NormalizedQuads ==
    /\ fn_name = "parse_and_normalize_curve_data"
    /\ fn_pc \in {"ret", "ret2"}
    /\ Len(fn_arg) % 4 = 0
    /\ Len(fn_arg) > 0
    /\ Len(fn_arg) <= 4 * (MaxPairs + 1)

(***************************************************************************)
(* C23 as stated: for an even count the median is the lower of the two     *)
(* central elements of the sorted values.                                  *)
(***************************************************************************)
C23_LowerMiddle ==
    NormalizedQuads /\ Len(PairsOf(fn_arg)) % 2 = 0 =>
        LET half == Len(PairsOf(fn_arg)) \div 2
        IN  /\ fn_ret.ok
            /\ fn_ret.val = NormalizedAbout(fn_arg, Ascending(Column(fn_arg, 1))[half],
                                            Ascending(Column(fn_arg, 2))[half])

(***************************************************************************)
(* C23: the median used for centring is the element at 0-based index       *)
(* floor(count/2) of the raw values sorted ascending, taken separately for *)
(* current and for voltage; for an even count this is the upper of the two *)
(* central elements, never their average.                                  *)
(***************************************************************************)
C23_MedianIsUpperMiddle ==
    NormalizedQuads =>
        LET n == Len(PairsOf(fn_arg))
            mi == Ascending(Column(fn_arg, 1))[(n \div 2) + 1]
            mv == Ascending(Column(fn_arg, 2))[(n \div 2) + 1]
        IN  /\ fn_ret.ok
            /\ fn_ret.val = NormalizedAbout(fn_arg, mi, mv)
            /\ \E q \in 1..n : Column(fn_arg, 1)[q] = mi /\ fn_ret.val[2][q] = F32Zero
            /\ \E q \in 1..n : Column(fn_arg, 2)[q] = mv /\ fn_ret.val[1][q] = F32Zero

\* two pairs with currents 0 and 3: the current 3 is the median and comes
\* out as 0, the current 0 comes out as -1
C23_Witness ==
    /\ NormalizedQuads
    /\ fn_pc = "ret"
    /\ PairsOf(fn_arg) = <<<<0, 1>>, <<3, 1>>>>
    /\ fn_ret.ok
    /\ fn_ret.val[2] = <<0 - F32One, F32Zero>>


(***************************************************************************)
(* C24: on a buffer of L bytes parse_and_normalize_curve_data returns the  *)
(* error that no pair was extracted exactly when L < 4; otherwise it       *)
(* returns a voltage and a current sequence of min(512, floor(L/4)) values *)
(* each.  The bytes of a partial quad at the end and the bytes after the   *)
(* first 2048 have no effect: with those bytes changed or cut off the      *)
(* result is the same.                                                     *)
(***************************************************************************)
C24_LengthAndTail ==
    /\ fn_name = "parse_and_normalize_curve_data" /\ fn_pc \in {"ret", "ret2", "ret_tail"} =>
           /\ fn_ret.ok <=> Len(fn_arg) >= 4
           /\ ~fn_ret.ok => fn_ret.err = NoPairs
           /\ fn_ret.ok =>
                  /\ Len(fn_ret.val[1]) = Min(512, Len(fn_arg) \div 4)
                  /\ Len(fn_ret.val[2]) = Min(512, Len(fn_arg) \div 4)
    /\ fn_pc = "ret_tail" =>
           LET before == Unwrap(fn_prev).arg
               used == 4 * Min(512, Len(before) \div 4)
           IN  /\ used < Len(before)
               /\ Len(fn_arg) >= used
               /\ \A b \in 1..used : fn_arg[b] = before[b]
               /\ fn_arg # before
               /\ fn_ret = Unwrap(fn_prev).ret

\* a buffer of 2052 bytes has given 512 values, and has given them again
\* with its last four bytes changed
C24_Witness ==
    /\ fn_pc = "ret_tail"
    /\ Len(fn_arg) = 2052
    /\ fn_arg[2049] # Unwrap(fn_prev).arg[2049]
    /\ fn_ret.ok
    /\ Len(fn_ret.val[1]) = 512


(***************************************************************************)
(* C25: value q of the current output is made from the little-endian       *)
(* 16-bit value at bytes 4q..4q+1 (q from 0) and value q of the voltage    *)
(* output from the one at bytes 4q+2..4q+3, each less its column's median  *)
(* and divided by the common scale; the outputs keep the order of the      *)
(* pairs, the result is (voltage, current), and the two have one length.   *)
(***************************************************************************)
C25_ElementwiseInOrder ==
    /\ fn_name = "parse_and_normalize_curve_data"
    /\ fn_pc \in {"ret", "ret2", "ret_tail"}
    /\ fn_ret.ok
    =>
    LET n == Min(512, Len(fn_arg) \div 4)
        cur == [q \in 1..n |-> fn_arg[4 * q - 3] + 256 * fn_arg[4 * q - 2]]
        vol == [q \in 1..n |-> fn_arg[4 * q - 1] + 256 * fn_arg[4 * q]]
        mi == SortedAt(cur, n \div 2)
        mv == SortedAt(vol, n \div 2)
        scale == Scale([q \in 1..n |-> cur[q] - mi], [q \in 1..n |-> vol[q] - mv])
    IN  /\ Len(fn_ret.val) = 2
        /\ Len(fn_ret.val[1]) = Len(fn_ret.val[2])
        /\ Len(fn_ret.val[1]) = n
        /\ \A q \in 1..n :
              /\ fn_ret.val[1][q] = F32Div(vol[q] - mv, scale)
              /\ fn_ret.val[2][q] = F32Div(cur[q] - mi, scale)

\* the pairs (255, 0) and (0, 3), in that order and not sorted, have given
\* voltage -3/255 and 0, current 0 and -1
C25_Witness ==
    /\ fn_name = "parse_and_normalize_curve_data"
    /\ fn_pc = "ret"
    /\ fn_arg = <<255, 0, 0, 0, 0, 0, 3, 0>>
    /\ fn_ret.ok
    /\ fn_ret.val[2] = <<F32Zero, 0 - F32One>>
    /\ fn_ret.val[1][2] = F32Zero
    /\ fn_ret.val[1][1] = F32Div(0 - 3, 255)


(***************************************************************************)
(* C26: every normalized value lies in [-1, 1], for one scale, the largest *)
(* of the centred current magnitudes, the centred voltage magnitudes and   *)
(* 1, divides both sequences; and when the largest centred magnitude is    *)
(* above 1, some value of the output is exactly 1 or exactly -1.           *)
(***************************************************************************)
C26_WithinUnitSquare ==
    /\ fn_name = "parse_and_normalize_curve_data"
    /\ fn_pc \in {"ret", "ret2", "ret_tail"}
    /\ fn_ret.ok
    =>
    LET n == Len(fn_ret.val[1])
        cur == [q \in 1..n |-> fn_arg[4 * q - 3] + 256 * fn_arg[4 * q - 2]]
        vol == [q \in 1..n |-> fn_arg[4 * q - 1] + 256 * fn_arg[4 * q]]
        mi == SortedAt(cur, n \div 2)
        mv == SortedAt(vol, n \div 2)
        largest == Max(MaxAbs([q \in 1..n |-> cur[q] - mi]),
                       MaxAbs([q \in 1..n |-> vol[q] - mv]))
    IN  /\ \A k \in {1, 2}, q \in 1..n : Abs(fn_ret.val[k][q]) <= F32One
        /\ largest > 1 => \E k \in {1, 2}, q \in 1..n : Abs(fn_ret.val[k][q]) = F32One
        /\ largest <= 1 =>
              \A k \in {1, 2}, q \in 1..n : Abs(fn_ret.val[k][q]) \in {F32Zero, F32One}

\* centred magnitudes 255 and 3: the current reaches -1 and the voltage
\* stays strictly inside
C26_Witness ==
    /\ fn_name = "parse_and_normalize_curve_data"
    /\ fn_pc = "ret"
    /\ PairsOf(fn_arg) = <<<<0, 3>>, <<255, 0>>>>
    /\ fn_ret.ok
    /\ fn_ret.val[2][1] = 0 - F32One
    /\ Abs(fn_ret.val[1][2]) < F32One
    /\ Abs(fn_ret.val[1][2]) > F32Zero


(***************************************************************************)
(* C27: a frame whose header carries a channel byte other than 0 is not    *)
(* refused: the read returns a curve whose channel field is that byte, the *)
(* curve is published to slot channel1 with the byte kept, and slot        *)
(* channel0 is left as it was.                                             *)
(***************************************************************************)
C27_UnknownChannelToSlot1 ==
    /\ [](/\ AfterFileRead /\ curve.ok =>
                 curve.val.channel = PayloadOf(Reports[First(HeadersFrom(read_from))])[3]
          /\ ~use_file_mode /\ pc_acq = "lock_data" =>
                 /\ curve.ok
                 /\ curve.val.channel = PayloadOf(Reports[dev_pos - REPORTS_PER_CURVE])[3]
          /\ pc_acq = "lock_data" => ENABLED AcqLockData \/ data_lock = "ui")
    /\ [][/\ (pc_acq \in {"store_voltage", "store_rest"} /\ curve.val.channel # 0) =>
                 curve_data'.channel0 = curve_data.channel0
          /\ (pc_acq = "store_rest" /\ pc_acq' # pc_acq /\ curve.val.channel # 0) =>
                 /\ curve_data'.channel1 = Some(curve.val)
                 /\ Unwrap(curve_data'.channel1).channel = curve.val.channel]_vars

\* the live thread has published a frame of channel byte 255 to slot
\* channel1
C27_Witness ==
    /\ ~use_file_mode
    /\ pc_acq = "clear_status"
    /\ curve.val.channel = 255
    /\ IsSome(curve_data.channel1)
    /\ Unwrap(curve_data.channel1).channel = 255
    /\ curve_data.channel0 = None


\* send_cmd has returned
SendCmdDone == fn_name = "send_cmd" /\ fn_pc = "ret"

(***************************************************************************)
(* C28: send_cmd makes of each of the four kinds of command one report of  *)
(* 65 bytes: byte 0 is 0, byte 1 the opcode of the kind (frequency FC,     *)
(* resolution FB, mode FA, voltage range FD, no two alike), byte 2 the     *)
(* index of the option, every other byte 0.  It writes it once, and a      *)
(* write that fails is returned to the caller as an error.                 *)
(***************************************************************************)
C28_CommandEncoding ==
    SendCmdDone =>
        LET kind == fn_arg[1]
            opcode == [k \in CommandKinds |->
                          CASE k = "SetFreq" -> 252
                            [] k = "SetRes"  -> 251
                            [] k = "SetMode" -> 250
                            [] k = "SetVolt" -> 253]
            writes == fn_ret.out.writes
        IN  /\ Len(writes) = 1
            /\ Len(writes[1]) = 65
            /\ writes[1][1] = 0
            /\ writes[1][2] = opcode[kind]
            /\ writes[1][3] = fn_arg[2]
            /\ \A b \in 4..65 : writes[1][b] = 0
            /\ \A other \in CommandKinds \ {kind} :
                  writes[1] # send_cmd(other, fn_arg[2], TRUE).writes[1]
            /\ fn_ret.out.res.ok <=> fn_ret.write_ok

\* SetVolt(255) has been encoded and its write has failed
C28_Witness ==
    /\ SendCmdDone
    /\ fn_arg = <<"SetVolt", 255>>
    /\ ~fn_ret.write_ok
    /\ ~fn_ret.out.res.ok
    /\ fn_ret.out.writes[1][2] = 253
    /\ fn_ret.out.writes[1][3] = 255


\* the positions of the well-formed frames of the capture: a header and
\* REPORTS_PER_CURVE extractable reports right after it
WellFormedFrames ==
    {h \in Headers :
        /\ h + REPORTS_PER_CURVE <= Len(Reports)
        /\ \A k \in 1..REPORTS_PER_CURVE : Extractable(Reports[h + k])}

\* the replay thread has ended a pass over the capture: an iteration has
\* failed and the cursor is back at 0
PassEnded ==
    /\ use_file_mode
    /\ pc_acq = "sleep"
    /\ last_iter = "err"
    /\ report_idx = 0

(***************************************************************************)
(* C29: in replay mode every well-formed frame of the capture is published *)
(* again and again, whatever else the capture holds before or after it.    *)
(* Every pass of the replay thread starts from cursor 0 and runs the same, *)
(* so a frame is published again and again only if it is published in     *)
(* each pass: when a pass has ended, every well-formed frame has been      *)
(* published.                                                              *)
(***************************************************************************)
C29_EveryFramePublishedInAPass ==
    PassEnded => \A h \in WellFormedFrames : CurveOfFrame(h) \in published


\* the reports of one frame: the header and its REPORTS_PER_CURVE reports
FrameLen == REPORTS_PER_CURVE + 1

\* the capture is made of well-formed frames only, one after the other
OnlyFrames ==
    /\ Len(Reports) > 0
    /\ Len(Reports) % FrameLen = 0
    /\ \E heads \in {Headers} :
          /\ heads = {h \in 1..Len(Reports) : h % FrameLen = 1}
          /\ \A h \in heads : \A k \in 1..REPORTS_PER_CURVE :
                 Extractable(Reports[h + k])

(***************************************************************************)
(* C30: on a capture made of k >= 1 well-formed frames only, the replay    *)
(* thread publishes them in file order: the read that starts at the cursor *)
(* of frame j returns frame j and leaves the cursor at frame j + 1.  The   *)
(* read that starts at the end fails, no header found, the cursor still at *)
(* the end; it sets the error status and the cursor goes back to 0, so one *)
(* failed iteration separates two passes, and the next read returns the    *)
(* first frame again; and so on while running is true.                     *)
(***************************************************************************)
C30_PassesInFileOrder ==
    /\ [](use_file_mode /\ OnlyFrames =>
             /\ report_idx % FrameLen = 0
             /\ report_idx <= Len(Reports)
             /\ AfterFileRead /\ read_from < Len(Reports) =>
                    /\ curve.ok
                    /\ pc_acq = "lock_data"
                    /\ curve.val = CurveOfFrame(read_from + 1)
                    /\ report_idx = read_from + FrameLen
             /\ AfterFileRead /\ read_from = Len(Reports) =>
                    /\ ~curve.ok
                    /\ pc_acq = "err"
                    /\ curve.err = NoHeader
                    /\ report_idx = Len(Reports))
    /\ [][(use_file_mode /\ OnlyFrames) =>
              /\ pc_acq = "err" /\ pc_acq' # pc_acq =>
                     /\ error_message' = Some(ErreurMsg(NoHeader))
                     /\ report_idx' = 0
                     /\ pc_acq' = "sleep"
              /\ pc_acq # "err" /\ ~AfterFileRead' => report_idx' = report_idx
              /\ pc_acq = "sleep" /\ pc_acq' # pc_acq => pc_acq' = "check"
              /\ pc_acq = "check" /\ pc_acq' # pc_acq =>
                     pc_acq' = IF running THEN "read" ELSE "done"
              /\ pc_acq = "read" /\ pc_acq' # pc_acq => AfterFileRead']_vars

\* the second pass over a capture of two frames: both have been published,
\* one iteration has failed, and the first frame is returned again
C30_Witness ==
    /\ use_file_mode
    /\ OnlyFrames
    /\ Len(Reports) = 2 * FrameLen
    /\ Cardinality(published) = 2
    /\ outcomes # <<>>
    /\ ~outcomes[Len(outcomes)].ok
    /\ AfterFileRead
    /\ read_from = 0
    /\ curve.ok
    /\ curve.val = CurveOfFrame(1)
    /\ running


\* a call of read_one_curve_from_reports, and one that has returned
ReadCalled == fn_name = "read_one_curve_from_reports"
ReadReturned == ReadCalled /\ fn_pc = "ret"

(***************************************************************************)
(* C31: whatever the reports and the cursor 0..reports.len() a call starts *)
(* from, every index at which the call reads reports[..] is below          *)
(* reports.len(), and the cursor it leaves is between the one it started   *)
(* from and reports.len(); a call that succeeds has read the header and    *)
(* the REPORTS_PER_CURVE reports just before its final cursor and nothing  *)
(* before the cursor it started from, so it advances by REPORTS_PER_CURVE  *)
(* + 1 at least and two frames of a pass share no report.                  *)
(***************************************************************************)
C31_CursorAndIndicesInRange ==
    ReadCalled =>
        \E reports \in {Captures[fn_arg[1]]} : \E touched \in {IndicesRead(reports, fn_arg[2])} :
            /\ touched \subseteq 0..(Len(reports) - 1)
            /\ ReadReturned =>
                   /\ fn_ret.start_idx >= fn_arg[2]
                   /\ fn_ret.start_idx <= Len(reports)
                   /\ fn_ret.res.ok =>
                          /\ fn_ret.start_idx >= fn_arg[2] + REPORTS_PER_CURVE + 1
                          /\ touched = fn_arg[2]..(fn_ret.start_idx - 1)
                          /\ BeginsWithMagic(reports[fn_ret.start_idx - REPORTS_PER_CURVE])

\* a call from a cursor inside a capture succeeds after it has passed over
\* reports that are no header
C31_Witness ==
    /\ ReadReturned
    /\ fn_arg[2] > 0
    /\ fn_ret.res.ok
    /\ fn_ret.start_idx > fn_arg[2] + REPORTS_PER_CURVE + 1
    /\ fn_ret.start_idx = Len(Captures[fn_arg[1]])


Slots == {"channel0", "channel1"}

(***************************************************************************)
(* C32: the two slots are None at startup, and no step of the replay loop, *)
(* of the live loop or of the presentation thread turns a slot that holds  *)
(* a curve back into None.                                                 *)
(***************************************************************************)
C32_SlotsNeverEmptied ==
    /\ curve_data = NewDualCurveData
    /\ [][\A slot \in Slots : IsSome(curve_data[slot]) => IsSome(curve_data'[slot])]_vars

\* both slots hold a curve, a later read has failed and its status is
\* written, and the presentation thread has read the two slots
C32_Witness ==
    /\ \A slot \in Slots : IsSome(curve_data[slot])
    /\ last_iter = "err"
    /\ pc_acq = "sleep"
    /\ pc_ui = "drawn"
    /\ \A slot \in Slots : IsSome(snap[slot])


\* the bytes of a whole frame body: REPORTS_PER_CURVE payloads
BodyBytes == REPORTS_PER_CURVE * REPORT_DATA_SIZE

(***************************************************************************)
(* C33: a curve either loop publishes was decoded from a buffer of         *)
(* REPORTS_PER_CURVE * REPORT_DATA_SIZE = 2048 bytes, no more and no less, *)
(* and has POINTS_PER_CURVE voltages and as many currents; no read of the  *)
(* loops fails with the error of a buffer that gives no pair.              *)
(***************************************************************************)
C33_PublishedFromWholeBuffer ==
    /\ [](/\ \A c \in published :
                 /\ Len(c.voltage) = POINTS_PER_CURVE
                 /\ Len(c.current) = POINTS_PER_CURVE
          /\ pc_acq = "err" => curve.err # NoPairs
          /\ error_message # Some(ErreurMsg(NoPairs))
          /\ ~use_file_mode =>
                 /\ Len(hid_data_bytes) = hid_i * REPORT_DATA_SIZE
                 /\ hid_i < REPORTS_PER_CURVE
          /\ AfterFileRead /\ curve.ok =>
                 \E acc \in {Accumulate(Reports, report_idx - REPORTS_PER_CURVE, 0, <<>>)} :
                     /\ IsSome(acc)
                     /\ Len(Unwrap(acc)) = BodyBytes
                     /\ Normalized(Unwrap(acc)) =
                            Ok(<<curve.val.voltage, curve.val.current>>))
    /\ [][~use_file_mode /\ pc_acq = "accum" /\ pc_acq' = "lock_data" =>
              /\ Len(hid_data_bytes) + REPORT_DATA_SIZE = BodyBytes
              /\ Normalized(hid_data_bytes \o PayloadOf(Reports[dev_pos + 1])) =
                     Ok(<<curve'.val.voltage, curve'.val.current>>)]_vars

\* the live loop has a second curve to publish, after a read that failed
C33_Witness ==
    /\ ~use_file_mode
    /\ pc_acq = "lock_data"
    /\ Cardinality(published) = 2
    /\ read_errs > 0
    /\ Len(curve.val.voltage) = POINTS_PER_CURVE


(***************************************************************************)
(* The mutexes of the program and which thread holds or is about to lock   *)
(* which.  `*m.lock().unwrap() = v` locks m for the one statement; the     *)
(* guard of backend.lock().unwrap() in the scrutinee of the `if let` of a  *)
(* command button lives until the end of that `if let`.                    *)
(***************************************************************************)
Threads == {"acq", "ui"}

\* the order in which the two threads nest the mutexes
LockRank ==
    [backend |-> 1, device |-> 2, curve_data |-> 3, error_message |-> 4, running |-> 4]

\* the mutexes whose guard a thread holds
Held(t) ==
    (IF device_lock = t THEN {"device"} ELSE {})
        \cup (IF data_lock = t THEN {"curve_data"} ELSE {})
        \cup (IF t = "ui" /\ pc_ui \in {"cmd_lock", "cmd_write", "cmd_ok", "cmd_err"}
              THEN {"backend"} ELSE {})

\* the mutexes the next statement of a thread may lock
Wanted(t) ==
    IF t = "acq"
    THEN CASE pc_acq = "lock_dev" -> {"device"}
           [] pc_acq = "lock_data" -> {"curve_data"}
           [] pc_acq \in {"start", "err", "clear_status"} -> {"error_message"}
           [] pc_acq = "check" -> {"running"}
           [] OTHER -> {}
    ELSE CASE pc_ui = "idle" ->
                  {"curve_data", "error_message", "running"}
                      \cup (IF IsSome(hid_backend) THEN {"backend"} ELSE {})
           [] pc_ui = "cmd_lock" -> {"device"}
           [] pc_ui \in {"export_status", "cmd_ok", "cmd_err"} -> {"error_message"}
           [] OTHER -> {}

\* thread t is at a lock() of a mutex whose guard thread u holds
WaitsFor(t, u) == t # u /\ Wanted(t) \cap Held(u) # {}

(***************************************************************************)
(* C34: the mutexes are nested in one order by both threads: backend, then *)
(* device, then curve_data, then error_message; the acquisition thread has *)
(* dropped the device guard when it locks curve_data, and error_message or *)
(* running is locked for one statement in which nothing else is locked.    *)
(* So the two threads never wait for each other, and the thread another    *)
(* waits for is not itself at a lock() of a held mutex.                    *)
(***************************************************************************)
C34_ConsistentLockOrder ==
    /\ \A t \in Threads : \A h \in Held(t) : \A w \in Wanted(t) :
           LockRank[h] < LockRank[w]
    /\ ~(device_lock = "acq" /\ data_lock = "acq")
    /\ ~(WaitsFor("acq", "ui") /\ WaitsFor("ui", "acq"))
    /\ pc_acq = "lock_data" /\ data_lock = "ui" => Wanted("ui") \cap Held("acq") = {}
    /\ pc_acq = "lock_dev" /\ device_lock = "ui" => Wanted("ui") = {}
    /\ pc_ui = "cmd_lock" /\ device_lock = "acq" => Wanted("acq") = {}

\* the acquisition thread is at the lock() of curve_data while the
\* presentation thread, which holds it, is about to lock the status
C34_Witness ==
    /\ pc_acq = "lock_data"
    /\ data_lock = "ui"
    /\ pc_ui = "export_status"
    /\ WaitsFor("acq", "ui")
    /\ hid_backend # None


\* the statements of the Ok arm under the data guard
UnderDataGuard == {"store_voltage", "store_rest", "clear_status", "unlock_data"}

\* the live loop is inside device.read and the device has nothing to give
DeviceStalled ==
    /\ ~use_file_mode
    /\ pc_acq \in {"seek", "accum"}
    /\ ~DeviceHasReport

(***************************************************************************)
(* C35: the acquisition thread holds the curve_data mutex only from the    *)
(* lock() of the Ok arm to the end of that arm, for the slot assignment    *)
(* and the status clear, steps that wait for nothing; it does not hold it  *)
(* while it reads the device, scans the reports, decodes or sleeps.  With  *)
(* the device stalled the presentation thread can still lock curve_data    *)
(* and read the slots.                                                     *)
(***************************************************************************)
C35_DataLockOnlyForStore ==
    /\ data_lock = "acq" <=> pc_acq \in UnderDataGuard
    /\ pc_acq = "store_voltage" => ENABLED AcqStoreVoltage
    /\ pc_acq = "store_rest" => ENABLED AcqStoreRest
    /\ pc_acq = "clear_status" => ENABLED AcqClearStatus
    /\ pc_acq = "unlock_data" => ENABLED AcqUnlockData
    /\ DeviceStalled =>
           /\ data_lock # "acq"
           /\ pc_ui = "idle" => ENABLED UiDrawLock
           /\ pc_ui = "read_channel0" => ENABLED UiReadChannel0
           /\ pc_ui = "read_channel1" => ENABLED UiReadChannel1
           /\ pc_ui = "drawn" => ENABLED UiUnlockData

\* the device has stalled in the middle of a frame, a slot holds a curve
\* and the presentation thread is reading the slots
C35_Witness ==
    /\ DeviceStalled
    /\ pc_acq = "accum"
    /\ read_errs = MaxReadErrors
    /\ IsSome(curve_data.channel1)
    /\ pc_ui = "read_channel1"
    /\ data_lock = "ui"


\* the statuses the presentation thread writes: export and command results
UiStatuses ==
    {Some(<<"[ok] Sauvegarde">>), Some(<<"[x] Erreur: ", "Erreur sauvegarde PNG">>),
     Some(<<"[x] Erreur: ", "Pas de donnees CH1">>), Some(<<"[x] Erreur cmd: ", "hid">>)}
        \cup {Some(<<"[ok] ", cmd>>) : cmd \in Commands}

\* a step of the acquisition thread, of the presentation thread
AcqSteps == pc_acq' # pc_acq
UiSteps == pc_ui' # pc_ui

(***************************************************************************)
(* C36: both threads write the status sink and the last write stands: the  *)
(* Ok arm of either loop sets it to None and the Err arm to "Erreur: " and *)
(* the error, whatever the sink held, the confirmation of a command or of  *)
(* an export included; the presentation thread writes its confirmation     *)
(* whatever the sink held.  While the presentation thread is still in the  *)
(* export whose result it has written, the sink holds that result or what  *)
(* the acquisition thread has written over it: its start-up status or the  *)
(* error of a failed read.                                                 *)
(***************************************************************************)
C36_StatusLastWriteWins ==
    /\ [][/\ pc_acq = "clear_status" /\ AcqSteps => error_message' = None
          /\ pc_acq = "err" /\ AcqSteps => error_message' = Some(ErreurMsg(curve.err))
          /\ pc_ui \in {"export_status", "cmd_ok", "cmd_err"} /\ UiSteps =>
                 error_message' \in UiStatuses
          /\ error_message' # error_message =>
                 \/ pc_acq \in {"start", "clear_status", "err"} /\ AcqSteps
                 \/ pc_ui \in {"export_status", "cmd_ok", "cmd_err"} /\ UiSteps]_vars
    /\ [](pc_ui = "drawn" /\ ui_op = "export" =>
             \/ error_message \in UiStatuses
             \/ /\ IsSome(error_message)
                /\ error_message[1][1] \in
                       {"Erreur: ", "Fichier charge: ", "Lecture en cours..."})

\* the export has written its confirmation and still holds the data guard;
\* a read has failed since and the sink holds its error
C36_Witness ==
    /\ pc_ui = "drawn"
    /\ ui_op = "export"
    /\ IsSome(snap.channel1)
    /\ pc_acq = "sleep"
    /\ last_iter = "err"
    /\ IsSome(error_message)
    /\ error_message[1][1] = "Erreur: "


\* entry k of the log is a frame that was aborted: its header had been read
Aborted(k) == ~outcomes[k].ok /\ outcomes[k].frame > 0

\* the positions of the frame headers of a stream: the headers the two loops
\* of read_one_curve take when no device.read fails.  A frame ends after
\* REPORTS_PER_CURVE data reports, or at a report of a wrong length
RECURSIVE TrueHeadersFrom(_, _)
TrueHeadersFrom(reports, idx) ==
    LET h == SeekHeader(reports, idx)
        taken == {i \in BodyIndices(reports, h[3], 0) : i < Len(reports)}
    IN  IF ~h[1] THEN {}
        ELSE {h[3]} \cup TrueHeadersFrom(reports, h[3] + Cardinality(taken))

TrueHeaders == [c \in 1..NumCaptures |-> TrueHeadersFrom(Captures[c], 0)]

(***************************************************************************)
(* C37: in the live loop a frame that is aborted, by a report of a wrong   *)
(* length or by a read error, leaves nothing behind: outside of the data   *)
(* loop the accumulator is empty, the device position only moves forward,  *)
(* and a curve published after an aborted frame starts from a frame header *)
(* of the stream, never from a data payload of the aborted frame.          *)
(***************************************************************************)
C37_AbortedFrameLeavesNoResidue ==
    ~use_file_mode =>
        /\ pc_acq # "accum" => hid_data_bytes = <<>> /\ hid_i = 0
        /\ \A k \in 1..Len(outcomes) : \A m \in (k + 1)..Len(outcomes) :
               Aborted(k) /\ outcomes[m].ok => outcomes[m].frame \in TrueHeaders[cap]


(***************************************************************************)
(* C38: the copy of parse_and_normalize_curve_data in main.rs and the one  *)
(* in curve.rs give the same result on every buffer: the same error, or    *)
(* the same two vectors; on the empty buffer and on buffers of fewer than  *)
(* 2048 bytes too.                                                         *)
(***************************************************************************)
C38_TwoCopiesAgree ==
    fn_name = "parse_and_normalize_curve_data" /\ fn_pc = "ret_main" =>
        fn_ret = fn_prev[1].ret

====
